---- MODULE Spec2Model ----
(***************************************************************************)
(* A model of dev/backend/utils/caching: the CacheService of               *)
(* cache_service.py over the FileSystemStorage of storage.py.              *)
(*                                                                         *)
(* The service runs on one asyncio event loop: the code between two real   *)
(* suspension points (file I/O, network I/O, sleep, a contended lock) runs *)
(* atomically.  Each action below is one such segment of one coroutine.    *)
(* A segment is written as a function from a record of the whole state to  *)
(* the next record, so that a call made by the code (get inside            *)
(* cache_image_async, set inside cache_image_async, ...) is the            *)
(* application of the callee's function, exactly as in the source.         *)
(***************************************************************************)
EXTENDS Naturals, Integers, Sequences, FiniteSets, TLC

(***************************************************************************)
(* Inputs.                                                                 *)
(***************************************************************************)
\* The coroutines (callers) that run concurrently on the event loop.
Tasks == {"t1", "t2"}
\* Keys that callers pass to get and set directly.
Keys == {"q1"}
\* Image URLs; two of them name the same host in different case.
Urls == {"http://a.com/1", "http://A.com/2"}
Categories == {"search", "images"}
\* JSON-native payloads that callers pass to set.
Payloads == {"v1", "v2"}
\* Python's None.
NoneVal == "None"
NoTask == "-"

\* Python truthiness of a value returned by get (if result: / if cached:).
Truthy(v) == v \notin {NoneVal, "{}"}

\* hashlib.md5(key.encode()).hexdigest(): one digest per key.
md5(k) ==
  CASE k = "q1" -> "md5:q1"
    [] k = "http://a.com/1" -> "md5:a1"
    [] k = "http://A.com/2" -> "md5:A2"
    [] k = "md5:q1" -> "md5:md5:q1"

\* The digests of the keys, and the digests of those digests
\* (cache_response_async passes a digest to set as the key).
Digests == {md5(k) : k \in Keys \cup Urls} \cup {md5(md5(k)) : k \in Keys}

\* CacheService._get_domain: urlparse(url).netloc.lower().
_get_domain(url) ==
  CASE url = "http://a.com/1" -> "a.com"
    [] url = "http://A.com/2" -> "a.com"

Domains == {_get_domain(u) : u \in Urls}

\* CacheService._initialize: self.max_image_size = 10 * 1024 * 1024.
max_image_size == 10 * 1024 * 1024

\* The body lengths a server may send: exactly the limit, and one byte more.
BodyLens == {max_image_size, max_image_size + 1}

\* The data URI cache_image_async builds from the body fetched for a URL:
\* "data:<content-type>;base64,<b64 of the body>".  The text encodes the
\* whole body, so a longer body gives a different (longer) URI.
DataUri(url, body_len) ==
  CASE url = "http://a.com/1" /\ body_len <= max_image_size
         -> "data:image/jpeg;base64,a1"
    [] url = "http://a.com/1" /\ body_len > max_image_size
         -> "data:image/jpeg;base64,a1+"
    [] url = "http://A.com/2" /\ body_len <= max_image_size
         -> "data:image/jpeg;base64,A2"
    [] url = "http://A.com/2" /\ body_len > max_image_size
         -> "data:image/jpeg;base64,A2+"

\* The number of bytes a cached value was encoded from (0: not an image).
PayloadBytes(v) ==
  CASE v \in {"data:image/jpeg;base64,a1", "data:image/jpeg;base64,A2"}
         -> max_image_size
    [] v \in {"data:image/jpeg;base64,a1+", "data:image/jpeg;base64,A2+"}
         -> max_image_size + 1
    [] OTHER -> 0

\* The thumbnail data URI of _generate_placeholder.
PlaceholderUri(url) ==
  CASE url = "http://a.com/1" -> "data:image/jpeg;base64,thumb-a1"
    [] url = "http://A.com/2" -> "data:image/jpeg;base64,thumb-A2"

Values == Payloads \cup {DataUri(u, n) : u \in Urls, n \in BodyLens}

(***************************************************************************)
(* The persistent store: one file per (category, digest),                  *)
(* <base_dir>/<category>/<digest>.json.                                    *)
(***************************************************************************)
FileIds == Categories \X Digests
Absent == "<absent>"
\* A file opened with mode 'w' and not yet written: empty.
Truncated == ""
\* A file whose text is not JSON.
Corrupt == "<not json>"

\* json.dumps(data) for the payloads of the model.
json_dumps(v) ==
  CASE v = "v1" -> "json:v1"
    [] v = "v2" -> "json:v2"
    [] v = "data:image/jpeg;base64,a1" -> "json:data-a1"
    [] v = "data:image/jpeg;base64,A2" -> "json:data-A2"
    [] v = "data:image/jpeg;base64,a1+" -> "json:data-a1+"
    [] v = "data:image/jpeg;base64,A2+" -> "json:data-A2+"
    [] v = "response" -> "json:response"
    [] v = "response/a1" -> "json:response/a1"
    [] v = "response/A2" -> "json:response/A2"
    [] v = "response/a1,A2" -> "json:response/a1,A2"
    [] v = "response/other" -> "json:response/other"

\* json.loads(text): raises on text that is not JSON (here: NoneVal, the
\* value FileSystemStorage.read returns from its except branch).
json_loads(text) ==
  CASE text = "json:v1" -> "v1"
    [] text = "json:v2" -> "v2"
    [] text = "json:{}" -> "{}"
    [] text = "json:data-a1" -> "data:image/jpeg;base64,a1"
    [] text = "json:data-A2" -> "data:image/jpeg;base64,A2"
    [] text = "json:data-a1+" -> "data:image/jpeg;base64,a1+"
    [] text = "json:data-A2+" -> "data:image/jpeg;base64,A2+"
    [] text = "json:response" -> "response"
    [] text = "json:response/a1" -> "response/a1"
    [] text = "json:response/A2" -> "response/A2"
    [] text = "json:response/a1,A2" -> "response/a1,A2"
    [] text = "json:response/other" -> "response/other"
    [] OTHER -> NoneVal

\* CacheConfig.get_cache_path(cache_type) / f"{key}.json"
cache_path(cache_type, digest) == <<cache_type, digest>>

(***************************************************************************)
(* Program constants.                                                      *)
(***************************************************************************)
\* CacheService.__init__: self.memory_cache_size = 100.  The model scales
\* the capacity down to 2 records so that a handful of keys can exceed it.
memory_cache_size == 2
\* CacheService.__init__: self.memory_cache_ttl = 3600 (seconds).
memory_cache_ttl == 3600
\* CacheConfig.max_age_hours = 24.
max_age_hours == 24
\* CacheService._initialize: self.max_retries = 3.
max_retries == 3
\* DomainBlocker.__init__: self.threshold = 3, self.block_duration = 3600.
threshold == 3
block_duration == 3600

\* The instants (seconds) at which the clock is observed.
TimePoints == {0, memory_cache_ttl + 1, max_age_hours * 3600 + 1}

VARIABLES
  _initialized,          \* self._initialized
  _shutting_down,        \* self._shutting_down
  _session,              \* self._session: "None", "open" or "closed"
  _initialization_lock,  \* holder of self._initialization_lock, or NoTask
  _cache_locks,          \* self._cache_locks: url -> lock object (its epoch)
  lock_epoch,            \* number of times _cache_locks was cleared
  lock_owner,            \* asyncio.Lock objects: <<url, epoch>> -> holder
  lock_waiters,          \* asyncio.Lock objects: <<url, epoch>> -> FIFO of waiters
  _memory_cache,         \* self._memory_cache: digest -> payload
  _memory_cache_timestamps, \* self._memory_cache_timestamps
  blocked_domains,       \* self.blocked_domains
  files,                 \* the store's files: FileIds -> text
  task,                  \* the coroutines: their position and locals
  now,                   \* the clock (seconds)
  inserted_at,           \* history: when each memory record was inserted
  written_at,            \* the files' modification times
  blocked_at,            \* history: when each domain was (last) blocked
  failures,              \* history: consecutive failed fetches per domain
  job,                   \* the coroutine of cache_response_async and its locals
  _instances,            \* CacheService._instances: root -> instance
  constructed,           \* history: the CacheService objects constructed
  init_runs,             \* history: runs of _initialize in the instance
  stats,                 \* self.stats: the class of the object it holds
  shards,                \* the day directories under Path("cache")
  blocked                \* DomainBlocker.blocked: domain -> <<time, count>>

vars == <<_initialized, _shutting_down, _session, _initialization_lock,
          _cache_locks, lock_epoch, lock_owner, lock_waiters, _memory_cache,
          _memory_cache_timestamps, blocked_domains, files, task, now,
          inserted_at, written_at, blocked_at, failures, job, _instances,
          constructed, init_runs, stats, shards, blocked>>

Epochs == {0, 1}
LockIds == Urls \X Epochs
NoLock == -1
NoHeader == -1

\* The storage roots (str(config.base_dir)) of the configurations in use.
Roots == {"cache"}

\* str(self.config.base_dir) of the service.
instance_key == "cache"

\* The CacheService objects that a run constructs, at most.
MaxInstances == 2

\* The n-th CacheService object, as a caller holds it.
InstanceName(n) == <<"instance 1", "instance 2", "instance 3", "instance 4">>[n]

\* The day directories cache/<year>/<month>/<day> that a store may hold,
\* named by their date, and one whose name is no date.
DayDirs == {"1 day ago", "8 days ago", "30 days ago", "not a date"}

\* The store of CacheManager with no day directory.
EmptyTree == [d \in DayDirs |-> Absent]

\* DomainBlocker.blocked = {}
NoRecords == [d \in {} |-> <<0, 0>>]

\* cache_response_async at rest.  articles: the urlToImage of the articles
\* of the response dict; i: where the current batch starts; cached: the
\* memory cache holds this dict object; final: the last set is under way.
IdleJob ==
  [pc |-> "idle", query |-> "-", articles |-> <<>>, i |-> 0,
   cached |-> FALSE, final |-> FALSE]

\* A coroutine at rest.
IdleTask ==
  [pc |-> "idle", op |-> "-", key |-> "-", cat |-> "-", val |-> NoneVal,
   ret |-> NoneVal, ph |-> NoneVal, src |-> "-", resp |-> "-",
   content_length |-> NoHeader, retries |-> 0, delay |-> 0,
   lock |-> NoLock]

\* The whole state as one record, the argument of the segments below.
St ==
  [initialized |-> _initialized, shutting_down |-> _shutting_down,
   session |-> _session, initialization_lock |-> _initialization_lock,
   cache_locks |-> _cache_locks, lock_epoch |-> lock_epoch,
   lock_owner |-> lock_owner, lock_waiters |-> lock_waiters,
   memory_cache |-> _memory_cache,
   memory_cache_timestamps |-> _memory_cache_timestamps,
   blocked_domains |-> blocked_domains, files |-> files, task |-> task,
   now |-> now, inserted_at |-> inserted_at, written_at |-> written_at,
   blocked_at |-> blocked_at, failures |-> failures, job |-> job,
   instances |-> _instances, constructed |-> constructed,
   init_runs |-> init_runs, stats |-> stats, shards |-> shards,
   blocked |-> blocked]

\* The state after a segment.
Becomes(s) ==
  /\ _initialized' = s.initialized
  /\ _shutting_down' = s.shutting_down
  /\ _session' = s.session
  /\ _initialization_lock' = s.initialization_lock
  /\ _cache_locks' = s.cache_locks
  /\ lock_epoch' = s.lock_epoch
  /\ lock_owner' = s.lock_owner
  /\ lock_waiters' = s.lock_waiters
  /\ _memory_cache' = s.memory_cache
  /\ _memory_cache_timestamps' = s.memory_cache_timestamps
  /\ blocked_domains' = s.blocked_domains
  /\ files' = s.files
  /\ task' = s.task
  /\ now' = s.now
  /\ inserted_at' = s.inserted_at
  /\ written_at' = s.written_at
  /\ blocked_at' = s.blocked_at
  /\ failures' = s.failures
  /\ job' = s.job
  /\ _instances' = s.instances
  /\ constructed' = s.constructed
  /\ init_runs' = s.init_runs
  /\ stats' = s.stats
  /\ shards' = s.shards
  /\ blocked' = s.blocked

\* f with f[k] = v, k added to the domain when it is not in it.
Put(f, k, v) == [x \in DOMAIN f \cup {k} |-> IF x = k THEN v ELSE f[x]]

\* The coroutine t moves to position p.
Goto(s, t, p) == [s EXCEPT !.task[t].pc = p]

\* The coroutine t's operation returns r to the caller outside the service.
Finish(s, t, r) == [s EXCEPT !.task[t].pc = "done", !.task[t].ret = r]

(***************************************************************************)
(* CacheService._initialize                                                *)
(***************************************************************************)
\* The initialization lock is free whenever this runs (cleanup, its only
\* other holder, ends with _initialized = False after it released the
\* lock), and nothing inside it suspends.
_initialize(s) ==
  IF s.initialized THEN s
  ELSE [s EXCEPT !.initialized = TRUE, !.blocked_domains = {},
                 !.blocked_at = [d \in {} |-> 0],
                 !.init_runs = @ + 1, !.stats = "Counter"]

(***************************************************************************)
(* CacheService.__init__ and CacheService.get_instance                     *)
(***************************************************************************)
\* A new CacheService object.  The variables of the service describe the
\* object constructed last; get_instance constructs one only while no
\* coroutine runs in the one before (see call_get_instance), so every lock
\* of the old object is free and the lock identities start again.
__init__(s) ==
  [s EXCEPT !.initialized = FALSE, !.shutting_down = FALSE,
            !.session = "None", !.initialization_lock = NoTask,
            !.cache_locks = [u \in {} |-> 0], !.lock_epoch = 0,
            !.memory_cache = [d \in {} |-> NoneVal],
            !.memory_cache_timestamps = [d \in {} |-> 0],
            !.inserted_at = [d \in {} |-> 0],
            !.blocked_domains = {}, !.blocked_at = [d \in {} |-> 0],
            !.constructed = @ + 1, !.init_runs = 0,
            !.stats = "CacheStats"]

\* get_instance that constructs without looking in the registry.
get_instance_unregistered(s, t, root) ==
  LET s1 == _initialize(__init__(s))
  IN  Finish([s1 EXCEPT !.instances = Put(@, root, s1.constructed)],
             t, InstanceName(s1.constructed))

\* get_instance, whole: cls._lock is free whenever it is called, because
\* nothing between its acquire and its release suspends.
get_instance(s, t, root) ==
  IF root \in DOMAIN s.instances
  THEN Finish(s, t, InstanceName(s.instances[root]))
  ELSE LET s1 == _initialize(__init__(s))
       IN  Finish([s1 EXCEPT !.instances = Put(@, root, s1.constructed)],
                  t, InstanceName(s1.constructed))

\* No coroutine other than t is inside an operation of the service.
Quiescent(t) ==
  /\ \A u \in Tasks \ {t} : task[u].pc \in {"idle", "done"}
  /\ job.pc = "idle"

call_get_instance(t, root) ==
  /\ task[t].pc = "idle"
  /\ root \notin DOMAIN _instances
        => (constructed < MaxInstances /\ Quiescent(t))
  /\ Becomes(get_instance([St EXCEPT !.task[t].op = "get_instance",
                                     !.task[t].key = root], t, root))

(***************************************************************************)
(* CacheService.get and FileSystemStorage.read                             *)
(***************************************************************************)
\* The outcome of a call up to its first suspension: the state, whether the
\* call is suspended, and the value returned when it is not.
Returned(s, v) == [s |-> s, pending |-> FALSE, val |-> v]
Suspended(s) == [s |-> s, pending |-> TRUE, val |-> NoneVal]

\* get up to the read of the file: the memory cache, then
\* whether the file exists.
get(s, t, k, cache_type) ==
  LET s1 == _initialize(s)
      cache_key == md5(k)
  IN  IF cache_key \in DOMAIN s1.memory_cache
      THEN Returned([s1 EXCEPT !.task[t].src = "memory"],
                    s1.memory_cache[cache_key])
      ELSE IF s1.files[cache_path(cache_type, cache_key)] = Absent
           THEN Returned([s1 EXCEPT !.task[t].src = "miss"], NoneVal)
           ELSE Suspended(s1)

\* A read that hands the text of the file on when it is not JSON.
storage_read_unparsed(s, cache_type, cache_key, io_error) ==
  IF io_error THEN NoneVal
  ELSE IF json_loads(s.files[cache_path(cache_type, cache_key)]) = NoneVal
       THEN s.files[cache_path(cache_type, cache_key)]
       ELSE json_loads(s.files[cache_path(cache_type, cache_key)])

\* FileSystemStorage.read once the file is open: the text is parsed; any
\* exception (io_error, or text that is not JSON) gives None.
storage_read(s, cache_type, cache_key, io_error) ==
  IF io_error THEN NoneVal
  ELSE json_loads(s.files[cache_path(cache_type, cache_key)])

\* get after the read: a truthy result is promoted to the memory cache.
get_after_read(s, t, k, cache_type, io_error) ==
  LET cache_key == md5(k)
      result == storage_read(s, cache_type, cache_key, io_error)
  IN  IF Truthy(result)
      THEN Returned([s EXCEPT
                       !.memory_cache = Put(@, cache_key, result),
                       !.inserted_at = Put(@, cache_key, s.now),
                       !.task[t].src = "file"],
                    result)
      ELSE Returned([s EXCEPT !.task[t].src = "miss"], NoneVal)

(***************************************************************************)
(* CacheService.set and FileSystemStorage.write                            *)
(***************************************************************************)
\* set's deduplication test: the key is in the memory cache.
set_is_duplicate(s, cache_key) == cache_key \in DOMAIN s.memory_cache

\* set up to the opening of the file.
set(s, t, k, data, cache_type) ==
  LET s1 == _initialize(s)
      cache_key == md5(k)
  IN  IF set_is_duplicate(s1, cache_key)
      THEN Returned(s1, NoneVal)
      ELSE Suspended([s1 EXCEPT
                        !.memory_cache = Put(@, cache_key, data),
                        !.inserted_at = Put(@, cache_key, s.now)])

\* FileSystemStorage.write, aiofiles.open(cache_path, 'w'): the file is
\* created or truncated; a failure is raised to set, which logs it.
storage_write_open(s, k, cache_type, io_error) ==
  IF io_error THEN Returned(s, NoneVal)
  ELSE Suspended([s EXCEPT
                    !.files[cache_path(cache_type, md5(k))] = Truncated,
                    !.written_at[cache_path(cache_type, md5(k))] = s.now])

\* FileSystemStorage.write, f.write(json.dumps(data)).
storage_write(s, k, data, cache_type, io_error) ==
  IF io_error THEN Returned(s, NoneVal)
  ELSE Returned([s EXCEPT
                   !.files[cache_path(cache_type, md5(k))] = json_dumps(data),
                   !.written_at[cache_path(cache_type, md5(k))] = s.now],
                NoneVal)

(***************************************************************************)
(* The operations get and set called from outside the service.             *)
(***************************************************************************)
call_get(t, k, cache_type) ==
  /\ task[t].pc = "idle"
  /\ LET s0 == [St EXCEPT !.task[t].op = "get", !.task[t].key = k,
                          !.task[t].cat = cache_type]
         r == get(s0, t, k, cache_type)
     IN  Becomes(IF r.pending THEN Goto(r.s, t, "get_read")
                 ELSE Finish(r.s, t, r.val))

get_read(t, io_error) ==
  /\ task[t].pc = "get_read"
  /\ LET r == get_after_read(St, t, task[t].key, task[t].cat, io_error)
     IN  Becomes(Finish(r.s, t, r.val))

call_set(t, k, data, cache_type) ==
  /\ task[t].pc = "idle"
  /\ LET s0 == [St EXCEPT !.task[t].op = "set", !.task[t].key = k,
                          !.task[t].cat = cache_type, !.task[t].val = data]
         r == set(s0, t, k, data, cache_type)
     IN  Becomes(IF r.pending THEN Goto(r.s, t, "set_open")
                 ELSE Finish(r.s, t, NoneVal))

set_open(t, io_error) ==
  /\ task[t].pc = "set_open"
  /\ LET r == storage_write_open(St, task[t].key, task[t].cat, io_error)
     IN  Becomes(IF r.pending THEN Goto(r.s, t, "set_write")
                 ELSE Finish(r.s, t, NoneVal))

set_write(t, io_error) ==
  /\ task[t].pc = "set_write"
  /\ LET r == storage_write(St, task[t].key, task[t].val, task[t].cat, io_error)
     IN  Becomes(Finish(r.s, t, NoneVal))

\* The caller takes the result; the coroutine is gone.
Return(t) ==
  /\ task[t].pc = "done"
  /\ task' = [task EXCEPT ![t] = IdleTask]
  /\ UNCHANGED <<_initialized, _shutting_down, _session, _initialization_lock,
                 _cache_locks, lock_epoch, lock_owner, lock_waiters,
                 _memory_cache, _memory_cache_timestamps, blocked_domains,
                 files, now, inserted_at, written_at, blocked_at, failures,
                 job, _instances, constructed, init_runs, stats, shards,
                 blocked>>

(***************************************************************************)
(* The domain breaker of the service: a set of blocked domains.            *)
(***************************************************************************)
\* CacheService._is_domain_blocked
_is_domain_blocked(s, url) == _get_domain(url) \in s.blocked_domains

\* The statuses for which _handle_error_response blocks the domain.
blocking_status(status) == status \in {403, 404, 429}

\* CacheService._handle_error_response
_handle_error_response(url, status) ==
  /\ blocking_status(status)
  /\ blocked_domains' = blocked_domains \cup {_get_domain(url)}
  /\ blocked_at' = Put(blocked_at, _get_domain(url), now)
  /\ UNCHANGED <<_initialized, _shutting_down, _session, _initialization_lock,
                 _cache_locks, lock_epoch, lock_owner, lock_waiters,
                 _memory_cache, _memory_cache_timestamps, files, task, now,
                 inserted_at, written_at, failures, job, _instances,
                 constructed, init_runs, stats, shards, blocked>>

(***************************************************************************)
(* The key lock registry (get_cache_lock) and its asyncio.Lock objects.    *)
(* A lock object is named by its URL and by the number of times the        *)
(* registry had been cleared when it was created.                          *)
(***************************************************************************)
\* A registry that makes a lock for every caller instead of keeping one.
fresh_cache_lock(s, url) ==
  [s EXCEPT !.cache_locks =
              Put(@, url, IF url \in DOMAIN @ THEN 1 - @[url] ELSE s.lock_epoch)]

\* CacheService.get_cache_lock: the registry after the call.
get_cache_lock(s, url) ==
  IF url \in DOMAIN s.cache_locks THEN s
  ELSE [s EXCEPT !.cache_locks = Put(@, url, s.lock_epoch)]

\* A release that frees the lock and wakes no waiter.
release_without_wakeup(s, l) == [s EXCEPT !.lock_owner[l] = NoTask]

\* asyncio.Lock.release: the lock passes to the first waiter, which resumes
\* inside the critical section.
release(s, l) ==
  IF s.lock_waiters[l] = <<>>
  THEN [s EXCEPT !.lock_owner[l] = NoTask]
  ELSE [s EXCEPT !.lock_owner[l] = Head(s.lock_waiters[l]),
                 !.lock_waiters[l] = Tail(@),
                 !.task[Head(s.lock_waiters[l])].pc = "img_locked"]

\* The end of "async with lock": cache_image_async returns r.
leave(s, t, r) ==
  Returned([release(s, <<s.task[t].key, s.task[t].lock>>)
              EXCEPT !.task[t].lock = NoLock],
           r)

(***************************************************************************)
(* CacheService.session (the lazy property)                                *)
(***************************************************************************)
\* The state after "await self.session"; the value is None when the
\* service is shutting down.
session(s) ==
  IF s.shutting_down THEN s
  ELSE IF s.session \in {"None", "closed"}
       THEN [s EXCEPT !.session = "open"]
       ELSE s

(***************************************************************************)
(* CacheService.cache_image_async                                          *)
(***************************************************************************)
\* What the server answers to a request: an exception of the client
\* (timeout, connection error), or a status line with an optional
\* content-length header (NoHeader: absent).  The header is the server's
\* word: it may be absent, right, or differ from the body that follows.
Responses ==
  {[kind |-> "error", status |-> 0, content_length |-> NoHeader]}
  \cup
  {[kind |-> "http", status |-> st, content_length |-> cl] :
     st \in {200, 404, 500},
     cl \in {NoHeader, max_image_size, max_image_size + 1}}

\* What response.read() gives: an exception, or a body of some length.
ReadError == 0
Bodies == {ReadError} \cup BodyLens

\* if content_length and int(content_length) > self.max_image_size
header_too_large(content_length) ==
  content_length # NoHeader /\ content_length > max_image_size

\* A fetch that trusts the header and never measures the body.
body_never_too_large(body_len) == FALSE

\* if len(image_data) > self.max_image_size
body_too_large(body_len) == body_len > max_image_size

\* History: the consecutive failed fetches of the URL's domain, counted up
\* to the threshold.  It is kept only by the specifications that start
\* with a count (NotRecorded: the history is not kept).
NotRecorded == -1
record_fetch(s, url, failed) ==
  [s EXCEPT !.failures[_get_domain(url)] =
              IF @ = NotRecorded THEN @
              ELSE IF ~failed THEN 0
              ELSE IF @ < threshold THEN @ + 1 ELSE @]

\* A fetch whose except branch returns None instead of the URL.
fetch_returning_none(s, t, url) ==
  LET s1 == session(s)
  IN  IF s.shutting_down
      THEN leave([s1 EXCEPT !.task[t].resp = "no session"], t, NoneVal)
      ELSE Suspended(Goto(s1, t, "img_request"))

\* From the miss to the request: the session, then session.get(url).
\* Without a session (None.get) the except branch returns the URL.
fetch(s, t, url) ==
  LET s1 == session(s)
  IN  IF s.shutting_down
      THEN leave([s1 EXCEPT !.task[t].resp = "no session"], t, url)
      ELSE Suspended(Goto(s1, t, "img_request"))

\* The critical section up to its first suspension.
critical_section(s, t, url) ==
  LET g == get(s, t, url, "images")
  IN  IF g.pending THEN Suspended(Goto(g.s, t, "img_get_read"))
      ELSE IF Truthy(g.val) THEN leave(g.s, t, g.val)
      ELSE fetch(g.s, t, url)

\* cache_image_async up to its first suspension.
cache_image_async(s, t, url) ==
  IF _is_domain_blocked(s, url)
  THEN Returned([s EXCEPT !.task[t].resp = "blocked"], url)
  ELSE LET s1 == get_cache_lock(s, url)
           e == s1.cache_locks[url]
           l == <<url, e>>
       IN  IF s1.lock_owner[l] = NoTask /\ s1.lock_waiters[l] = <<>>
           THEN critical_section([s1 EXCEPT !.lock_owner[l] = t,
                                            !.task[t].lock = e], t, url)
           ELSE Suspended([s1 EXCEPT !.lock_waiters[l] = Append(@, t),
                                     !.task[t].lock = e,
                                     !.task[t].pc = "img_wait"])

\* The response has arrived: the status and the quick size check.
on_response(s, t, url, r) ==
  IF r.kind = "error"
  THEN leave(record_fetch([s EXCEPT !.task[t].resp = "error"], url, TRUE), t, url)
  ELSE IF r.status # 200
  THEN leave(record_fetch([s EXCEPT !.task[t].resp = "status"], url, TRUE), t, url)
  ELSE IF header_too_large(r.content_length)
  THEN leave([s EXCEPT !.task[t].resp = "header too large",
                       !.task[t].content_length = r.content_length], t, url)
  ELSE Suspended([s EXCEPT !.task[t].pc = "img_body",
                           !.task[t].content_length = r.content_length])

\* The body has been read: the size check, the encoding, and set.
on_body(s, t, url, body_len) ==
  IF body_len = ReadError
  THEN leave(record_fetch([s EXCEPT !.task[t].resp = "error"], url, TRUE), t, url)
  ELSE IF body_too_large(body_len)
  THEN leave([s EXCEPT !.task[t].resp = "body too large"], t, url)
  ELSE LET data_uri == DataUri(url, body_len)
           s1 == record_fetch([s EXCEPT !.task[t].resp = "ok",
                                        !.task[t].val = data_uri], url, FALSE)
           w == set(s1, t, url, data_uri, "images")
       IN  IF w.pending THEN Suspended(Goto(w.s, t, "img_set_open"))
           ELSE leave(w.s, t, data_uri)

(***************************************************************************)
(* CacheService.get_image_with_placeholder and _generate_placeholder       *)
(***************************************************************************)
\* The dict get_image_with_placeholder returns: ret is "full", ph is
\* "placeholder".
finish_placeholder(s, t, full, placeholder) ==
  [s EXCEPT !.task[t].pc = "done", !.task[t].val = NoneVal,
            !.task[t].src = "-",
            !.task[t].ret = IF full # NoneVal THEN full ELSE s.task[t].key,
            !.task[t].ph = IF placeholder # NoneVal THEN placeholder
                           ELSE s.task[t].key]

\* cache_image_async has returned r to the coroutine t: to the caller
\* outside, or to get_image_with_placeholder.
complete(s, t, r) ==
  IF s.task[t].op = "get_image_with_placeholder"
  THEN finish_placeholder(s, t, r, s.task[t].ph)
  ELSE Finish([s EXCEPT !.task[t].val = NoneVal, !.task[t].src = "-"], t, r)

\* An outcome of cache_image_async, suspended or returned.
proceed(s, t, o) == IF o.pending THEN o.s ELSE complete(o.s, t, o.val)

\* After the cache check of get_image_with_placeholder: a cached image is
\* returned as both; else _generate_placeholder sends its own request.
placeholder_after_get(s, t, cached) ==
  IF Truthy(cached)
  THEN [s EXCEPT !.task[t].pc = "done", !.task[t].ret = cached,
                 !.task[t].ph = cached, !.task[t].src = "-"]
  ELSE Goto(s, t, "ph_request")

\* _generate_placeholder: the thumbnail, or None on a status other than
\* 200, on an exception and on a body that is no image.
_generate_placeholder(url, r, is_image) ==
  IF r.kind = "http" /\ r.status = 200 /\ is_image
  THEN PlaceholderUri(url) ELSE NoneVal

(***************************************************************************)
(* The operations on images called from outside the service.               *)
(***************************************************************************)
call_cache_image_async(t, url) ==
  /\ task[t].pc = "idle"
  /\ LET s0 == [St EXCEPT !.task[t].op = "cache_image_async",
                          !.task[t].key = url, !.task[t].cat = "images"]
     IN  Becomes(proceed(s0, t, cache_image_async(s0, t, url)))

\* A waiter that was handed the lock enters the critical section.
img_locked(t) ==
  /\ task[t].pc = "img_locked"
  /\ Becomes(proceed(St, t, critical_section(St, t, task[t].key)))

img_get_read(t, io_error) ==
  /\ task[t].pc = "img_get_read"
  /\ LET g == get_after_read(St, t, task[t].key, "images", io_error)
     IN  Becomes(proceed(g.s, t,
                   IF Truthy(g.val) THEN leave(g.s, t, g.val)
                   ELSE fetch(g.s, t, task[t].key)))

img_response(t, r) ==
  /\ task[t].pc = "img_request"
  /\ Becomes(proceed(St, t, on_response(St, t, task[t].key, r)))

img_body(t, body_len) ==
  /\ task[t].pc = "img_body"
  /\ Becomes(proceed(St, t, on_body(St, t, task[t].key, body_len)))

img_set_open(t, io_error) ==
  /\ task[t].pc = "img_set_open"
  /\ LET w == storage_write_open(St, task[t].key, "images", io_error)
     IN  Becomes(IF w.pending THEN Goto(w.s, t, "img_set_write")
                 ELSE proceed(w.s, t, leave(w.s, t, task[t].val)))

img_set_write(t, io_error) ==
  /\ task[t].pc = "img_set_write"
  /\ LET w == storage_write(St, task[t].key, task[t].val, "images", io_error)
     IN  Becomes(proceed(w.s, t, leave(w.s, t, task[t].val)))

call_get_image_with_placeholder(t, url) ==
  /\ task[t].pc = "idle"
  /\ LET s0 == [St EXCEPT !.task[t].op = "get_image_with_placeholder",
                          !.task[t].key = url, !.task[t].cat = "images"]
         g == get(s0, t, url, "images")
     IN  Becomes(IF g.pending THEN Goto(g.s, t, "ph_get_read")
                 ELSE placeholder_after_get(g.s, t, g.val))

ph_get_read(t, io_error) ==
  /\ task[t].pc = "ph_get_read"
  /\ LET g == get_after_read(St, t, task[t].key, "images", io_error)
     IN  Becomes(placeholder_after_get(g.s, t, g.val))

\* The placeholder's response has arrived; cache_image_async follows.
ph_response(t, r, is_image) ==
  /\ task[t].pc = "ph_request"
  /\ LET url == task[t].key
         s1 == [St EXCEPT !.task[t].ph = _generate_placeholder(url, r, is_image)]
     IN  Becomes(proceed(s1, t, cache_image_async(s1, t, url)))

(***************************************************************************)
(* CacheService.cache_response_async                                       *)
(***************************************************************************)
\* batch_size = 20 in the source; the model dispatches batches of 1.
batch_size == 1

\* The urlToImage of the articles of the response that the news API gave
\* for a query: three articles, the first and the last with the same image.
Articles(query) == <<"http://a.com/1", "http://A.com/2", "http://a.com/1">>

\* The coroutines that asyncio.gather runs for a batch, in its order.
ChildOrder == <<"t1", "t2">>

\* isinstance(result, str) and result.startswith('data:')
IsDataUri(v) == v \in {DataUri(u, n) : u \in Urls, n \in BodyLens}

\* The response dict as a payload: which of its images are rewritten.
ResponseValue(query, arts) ==
  LET rewritten == {n \in DOMAIN arts : arts[n] # Articles(query)[n]}
  IN  CASE rewritten = {} -> "response"
        [] rewritten = {1, 3} -> "response/a1"
        [] rewritten = {2} -> "response/A2"
        [] rewritten = {1, 2, 3} -> "response/a1,A2"
        [] OTHER -> "response/other"

\* A rewriting that stops at the first article with the URL.
rewrite_first_article(arts, url, result) ==
  IF IsDataUri(result) /\ \E n \in DOMAIN arts : arts[n] = url
  THEN [arts EXCEPT ![CHOOSE n \in DOMAIN arts :
                        arts[n] = url /\ \A m \in 1..(n - 1) : arts[m] # url]
                      = result]
  ELSE arts

\* for article in response['articles']:
\*     if article.get('urlToImage') == url: article['urlToImage'] = result
rewrite(arts, url, result) ==
  IF IsDataUri(result)
  THEN [n \in DOMAIN arts |-> IF arts[n] = url THEN result ELSE arts[n]]
  ELSE arts

\* A batch one URL longer than batch_size.
batch_one_longer(image_urls, i) ==
  SubSeq(image_urls, i,
         IF i + batch_size <= Len(image_urls)
         THEN i + batch_size ELSE Len(image_urls))

\* batch = image_urls[i:i + batch_size] (i counted from 1 here)
batch(image_urls, i) ==
  SubSeq(image_urls, i,
         IF i + batch_size - 1 <= Len(image_urls)
         THEN i + batch_size - 1 ELSE Len(image_urls))

\* for url, result in zip(batch, results): the articles after the first k
\* results of the batch b.
RECURSIVE rewrite_batch(_, _, _, _)
rewrite_batch(s, arts, b, k) ==
  IF k = 0 THEN arts
  ELSE rewrite(rewrite_batch(s, arts, b, k - 1), b[k],
               s.task[ChildOrder[k]].ret)

\* The end of cache_response_async or of one of its file writes: the last
\* set(key, response), which finds the key in the memory cache.
finish_response(s) ==
  IF s.job.final THEN [s EXCEPT !.job.pc = "done"]
  ELSE LET w == set(s, NoTask, md5(s.job.query),
                    ResponseValue(s.job.query, s.job.articles), "search")
       IN  IF w.pending
           THEN [w.s EXCEPT !.job.pc = "resp_set_open", !.job.final = TRUE,
                            !.job.cached = TRUE]
           ELSE [w.s EXCEPT !.job.pc = "done"]

\* asyncio.gather(*[self.cache_image_async(url, silent=True) for url in
\* batch]): one coroutine per URL of the batch that starts at job.i; past
\* the last batch, the end.
start_batch(s) ==
  LET image_urls == Articles(s.job.query)
      b == batch(image_urls, s.job.i)
  IN  IF s.job.i > Len(image_urls) THEN finish_response(s)
      ELSE [s EXCEPT
              !.job.pc = "gather",
              !.task = [t \in Tasks |->
                          IF \E k \in DOMAIN b : ChildOrder[k] = t
                          THEN [IdleTask EXCEPT
                                  !.pc = "spawned",
                                  !.op = "cache_image_async",
                                  !.cat = "images",
                                  !.key = b[CHOOSE k \in DOMAIN b :
                                              ChildOrder[k] = t]]
                          ELSE @[t]]]

\* After a set of cache_response_async: on to the batches, or the end.
after_response_set(s) ==
  IF s.job.final THEN finish_response(s) ELSE start_batch(s)

\* cache_response_async up to its first suspension: set(md5(query), response).
cache_response_async(s, query) ==
  LET s0 == [s EXCEPT !.job = [IdleJob EXCEPT !.query = query,
                                              !.articles = Articles(query),
                                              !.i = 1]]
      w == set(s0, NoTask, md5(query),
               ResponseValue(query, Articles(query)), "search")
  IN  IF w.pending
      THEN [w.s EXCEPT !.job.pc = "resp_set_open", !.job.cached = TRUE]
      ELSE start_batch(w.s)

\* gather has returned: the articles are rewritten in the dict (which is the
\* object the memory cache holds when the first set stored it), and the
\* next batch starts.
settle_batch(s) ==
  LET b == batch(Articles(s.job.query), s.job.i)
      arts == rewrite_batch(s, s.job.articles, b, Len(b))
      s1 == [s EXCEPT
               !.job.articles = arts,
               !.job.i = @ + batch_size,
               !.memory_cache =
                  IF s.job.cached
                  THEN Put(@, md5(md5(s.job.query)),
                           ResponseValue(s.job.query, arts))
                  ELSE @,
               !.task = [t \in Tasks |->
                           IF s.task[t].op = "cache_image_async"
                           THEN IdleTask ELSE @[t]]]
  IN  start_batch(s1)

call_cache_response_async(query) ==
  /\ job.pc = "idle"
  /\ \A t \in Tasks : task[t].pc = "idle"
  /\ Becomes(cache_response_async(St, query))

resp_set_open(io_error) ==
  /\ job.pc = "resp_set_open"
  /\ LET w == storage_write_open(St, md5(job.query), "search", io_error)
     IN  Becomes(IF w.pending THEN [w.s EXCEPT !.job.pc = "resp_set_write"]
                 ELSE after_response_set(w.s))

resp_set_write(io_error) ==
  /\ job.pc = "resp_set_write"
  /\ LET w == storage_write(St, md5(job.query),
                            ResponseValue(job.query, job.articles),
                            "search", io_error)
     IN  Becomes(after_response_set(w.s))

\* A coroutine of the batch runs for the first time.
child_start(t) ==
  /\ task[t].pc = "spawned"
  /\ Becomes(proceed(St, t, cache_image_async(St, t, task[t].key)))

batch_settled ==
  /\ job.pc = "gather"
  /\ \A t \in Tasks : task[t].op = "cache_image_async" => task[t].pc = "done"
  /\ Becomes(settle_batch(St))

\* The coroutine of cache_response_async is gone.
job_return ==
  /\ job.pc = "done"
  /\ Becomes([St EXCEPT !.job = IdleJob])

(***************************************************************************)
(* CacheService.fetch_image_with_retry                                     *)
(***************************************************************************)
\* One call fetch_image_with_retry(url, retries).  self.timeout is assigned
\* nowhere (the attribute is download_timeout), so
\* aiohttp.ClientSession(timeout=self.timeout) raises AttributeError inside
\* the try, before any request; "except Exception" then sleeps and calls
\* again, or returns None once retries = max_retries.
\* The seconds slept before the retry that follows the failed call
\* number retries: asyncio.sleep(1 * (retries + 1)).
retry_delay(retries) == 1 * (retries + 1)

\* A fetcher that allows itself one retry more than max_retries.
fetch_image_with_one_more_retry(s, t, retries) ==
  IF retries < max_retries + 1
  THEN [s EXCEPT !.task[t].pc = "retry_sleep", !.task[t].retries = retries,
                 !.task[t].delay = retry_delay(retries)]
  ELSE Finish([s EXCEPT !.task[t].retries = retries], t, NoneVal)

fetch_image_with_retry(s, t, retries) ==
  IF retries < max_retries
  THEN [s EXCEPT !.task[t].pc = "retry_sleep", !.task[t].retries = retries,
                 !.task[t].delay = retry_delay(retries)]
  ELSE Finish([s EXCEPT !.task[t].retries = retries], t, NoneVal)

call_fetch_image_with_retry(t, url) ==
  /\ task[t].pc = "idle"
  /\ LET s0 == [St EXCEPT !.task[t].op = "fetch_image_with_retry",
                          !.task[t].key = url]
     IN  Becomes(fetch_image_with_retry(s0, t, 0))

\* asyncio.sleep(task[t].delay) is over: the recursive call.
retry_sleep(t) ==
  /\ task[t].pc = "retry_sleep"
  /\ Becomes(fetch_image_with_retry(St, t, task[t].retries + 1))

(***************************************************************************)
(* CacheService.cleanup (the async definition, which replaces the          *)
(* synchronous one of the same name) and CacheService.shutdown             *)
(***************************************************************************)
\* cleanup that leaves the instance in the registry.
cleanup_rest_keeping_instance(s, t) ==
  Finish([s EXCEPT !.session = "None",
                   !.cache_locks = [u \in {} |-> 0],
                   !.lock_epoch = @ + 1,
                   !.initialization_lock = NoTask,
                   !.initialized = FALSE],
         t, NoneVal)

\* cleanup after the session is closed, to its end: the locks are dropped
\* and, under cls._lock (free, see get_instance), the instance leaves the
\* registry.
cleanup_rest(s, t) ==
  Finish([s EXCEPT !.session = "None",
                   !.cache_locks = [u \in {} |-> 0],
                   !.lock_epoch = @ + 1,
                   !.initialization_lock = NoTask,
                   !.instances = [r \in DOMAIN @ \ {instance_key} |-> @[r]],
                   !.initialized = FALSE],
         t, NoneVal)

\* cleanup up to "await self._session.close()".
cleanup(s, t) ==
  IF s.shutting_down THEN Finish(s, t, NoneVal)
  ELSE LET s1 == [s EXCEPT !.shutting_down = TRUE,
                           !.initialization_lock = t]
       IN  IF s.session = "open"
           THEN Goto([s1 EXCEPT !.session = "closed"], t, "cleanup_close")
           ELSE cleanup_rest(s1, t)

call_cleanup(t) ==
  /\ task[t].pc = "idle"
  /\ _shutting_down \/ _initialization_lock = NoTask
  /\ Becomes(cleanup([St EXCEPT !.task[t].op = "cleanup"], t))

cleanup_close(t) ==
  /\ task[t].pc = "cleanup_close"
  /\ Becomes(cleanup_rest(St, t))

\* shutdown that closes a session that is already closed.
shutdown_closing_again(s, t) ==
  IF s.session # "None"
  THEN Goto([s EXCEPT !.session = "closed"], t, "shutdown_close")
  ELSE Finish(s, t, NoneVal)

\* shutdown up to "await self._session.close()".
shutdown(s, t) ==
  IF s.session = "open"
  THEN Goto([s EXCEPT !.session = "closed"], t, "shutdown_close")
  ELSE Finish(s, t, NoneVal)

call_shutdown(t) ==
  /\ task[t].pc = "idle"
  /\ Becomes(shutdown([St EXCEPT !.task[t].op = "shutdown"], t))

\* shutdown after the close: self._session = None.
shutdown_close(t) ==
  /\ task[t].pc = "shutdown_close"
  /\ Becomes(Finish([St EXCEPT !.session = "None"], t, NoneVal))

(***************************************************************************)
(* CacheManager: cleanup and store_cache_entry                             *)
(***************************************************************************)
\* CacheConfig.cleanup_days = 7.
cleanup_days == 7

\* What a day directory holds: nothing, entry files of its own ("flat"),
\* category directories with entry files (the layout
\* <day>/<cache_type>/<hash>.json of store_cache_entry, "nested"), or
\* category directories that have been emptied ("subdirs").
Contents == {Absent, "empty", "flat", "nested", "subdirs"}

\* datetime(int(year), int(month), int(day)) raises ValueError for a name
\* that is no date.
IsDate(d) == d # "not a date"

\* The date of a day directory, in days before today.
DaysAgo(d) ==
  CASE d = "today" -> 0
    [] d = "1 day ago" -> 1
    [] d = "6 days ago" -> 6
    [] d = "7 days ago" -> 7
    [] d = "8 days ago" -> 8
    [] d = "30 days ago" -> 30

\* The hours of the day at which cleanup may run.
TimesOfDay == {0, 12}

\* dir_date and cutoff_date, in hours from the start of today: the date of
\* a directory is the midnight at which its day starts.
dir_date(d) == 0 - DaysAgo(d) * 24
cutoff_date(time_of_day, max_age_days) == time_of_day - max_age_days * 24

\* "for cache_file in day_dir.rglob('*.json'): cache_file.unlink()": the
\* files go, at every depth; the directories that held them stay.
unlink_all(content) ==
  CASE content = "flat" -> "empty"
    [] content = "nested" -> "subdirs"
    [] OTHER -> content

\* The orders in which iterdir may list the day directories.
Orders ==
  {o \in [1..Cardinality(DayDirs) -> DayDirs] :
     \A i, j \in DOMAIN o : i # j => o[i] # o[j]}

\* The handler "except (ValueError, OSError) as e: logger.error(...)":
\* cache_manager.py binds no name logger (it imports typing, datetime,
\* pathlib, hashlib and StorageBackend), so the handler raises NameError,
\* which leaves cleanup.
cleanup_handler(tree) == [tree |-> tree, ret |-> "raised NameError"]

\* CacheManager.cleanup over the day directories in the order listed.
\* day_dir.rmdir() raises OSError unless the directory is empty.
RECURSIVE manager_cleanup(_, _, _)
manager_cleanup(tree, order, cutoff) ==
  IF order = <<>> THEN [tree |-> tree, ret |-> NoneVal]
  ELSE LET d == Head(order)
       IN  IF tree[d] = Absent
           THEN manager_cleanup(tree, Tail(order), cutoff)
           ELSE IF ~IsDate(d) THEN cleanup_handler(tree)
           ELSE IF dir_date(d) < cutoff
           THEN LET emptied == [tree EXCEPT ![d] = unlink_all(@)]
                IN  IF emptied[d] = "empty"
                    THEN manager_cleanup([emptied EXCEPT ![d] = Absent],
                                         Tail(order), cutoff)
                    ELSE cleanup_handler(emptied)
           ELSE manager_cleanup(tree, Tail(order), cutoff)

\* manager.cleanup(max_age=timedelta(days=cleanup_days)), synchronous.
call_manager_cleanup(t, order, time_of_day) ==
  /\ task[t].pc = "idle"
  /\ LET r == manager_cleanup(shards, order,
                              cutoff_date(time_of_day, cleanup_days))
     IN  Becomes(Finish([St EXCEPT !.task[t].op = "manager.cleanup",
                                   !.shards = r.tree], t, r.ret))

\* The path and the record that store_cache_entry builds for an entry
\* written on the day `day` at the time timestamp:
\* cache/<year>/<month>/<day>/<cache_type>/<key_hash>.json and
\* {"query": key, "timestamp": ..., "response": data}.
store_cache_path(day, cache_type, key_hash) == <<day, cache_type, key_hash>>
cache_data(key, timestamp, data) ==
  "json:{query: " \o key \o ", timestamp: " \o ToString(timestamp)
    \o ", response: " \o data \o "}"

\* manager.store_cache_entry(key, data) on the manager of the service,
\* which _initialize builds as CacheManager(self.config): its storage is
\* the CacheConfig, which has no write, so self.storage.write raises
\* AttributeError and nothing is stored.
store_cache_entry(s, t, key, data) == Finish(s, t, "raised AttributeError")

call_store_cache_entry(t, key, data) ==
  /\ task[t].pc = "idle"
  /\ Becomes(store_cache_entry(
       [St EXCEPT !.task[t].op = "manager.store_cache_entry",
                  !.task[t].key = key], t, key, data))

\* What a CacheManager may be given as its storage: the CacheConfig that
\* _initialize passes (CacheManager(self.config)), or a FileSystemStorage.
Storages == {"CacheConfig", "FileSystemStorage"}

\* manager.get_cache_entry(key, cache_type): the loop over range(7) starts
\* with today's shard and never gets further.  A CacheConfig has no read
\* (AttributeError); the read of a FileSystemStorage is a coroutine
\* function, and the coroutine object it returns, not awaited, is truthy
\* and has no ['response'] (TypeError).  Either exception reaches
\* "except CacheError", and cache_manager.py binds no name CacheError, so
\* the clause raises NameError, which leaves get_cache_entry.
get_cache_entry(s, t, key, cache_type, storage) ==
  Finish(s, t, "raised NameError")

call_get_cache_entry(t, key, cache_type, storage) ==
  /\ task[t].pc = "idle"
  /\ Becomes(get_cache_entry(
       [St EXCEPT !.task[t].op = "manager.get_cache_entry",
                  !.task[t].key = key, !.task[t].cat = cache_type],
       t, key, cache_type, storage))

(***************************************************************************)
(* CacheService.get_stats (the async definition, which replaces the        *)
(* synchronous one of the same name)                                       *)
(***************************************************************************)
\* self.stats.get_stats(): a collections.Counter, which _initialize puts
\* in self.stats, has no get_stats (AttributeError); the CacheStats of
\* __init__ has.
get_stats(s, t) ==
  IF s.stats = "CacheStats" THEN Finish(s, t, "stats")
  ELSE Finish(s, t, "raised AttributeError")

call_get_stats(t) ==
  /\ task[t].pc = "idle"
  /\ Becomes(get_stats([St EXCEPT !.task[t].op = "get_stats"], t))

(***************************************************************************)
(* CacheService._manage_memory_cache                                       *)
(***************************************************************************)
\* The orders in which a dict may hold the digests (the order of their
\* insertion), which is the order in which min() looks at its keys.
DictOrders ==
  {o \in [1..Cardinality(Digests) -> Digests] :
     \A i, j \in DOMAIN o : i # j => o[i] # o[j]}

\* f without the keys of S.
Without(f, S) == [k \in DOMAIN f \ S |-> f[k]]

\* The last of the keys with the greatest timestamp.
newest_key(timestamps, order) ==
  order[CHOOSE i \in DOMAIN order :
          /\ order[i] \in DOMAIN timestamps
          /\ \A j \in DOMAIN order :
               order[j] \in DOMAIN timestamps =>
                 \/ timestamps[order[j]] < timestamps[order[i]]
                 \/ timestamps[order[j]] = timestamps[order[i]] /\ j <= i]

\* min(self._memory_cache_timestamps.keys(), key=...): the first, in the
\* order of the dict, of the keys with the least timestamp.
oldest_key(timestamps, order) ==
  order[CHOOSE i \in DOMAIN order :
          /\ order[i] \in DOMAIN timestamps
          /\ \A j \in DOMAIN order :
               order[j] \in DOMAIN timestamps =>
                 \/ timestamps[order[j]] > timestamps[order[i]]
                 \/ timestamps[order[j]] = timestamps[order[i]] /\ i <= j]

\* "while len(self._memory_cache) > self.memory_cache_size": min() of no
\* timestamps raises ValueError.
RECURSIVE evict_oldest(_, _, _)
evict_oldest(cache, timestamps, order) ==
  IF Cardinality(DOMAIN cache) <= memory_cache_size
  THEN [cache |-> cache, timestamps |-> timestamps, ret |-> NoneVal]
  ELSE IF DOMAIN timestamps = {}
  THEN [cache |-> cache, timestamps |-> timestamps,
        ret |-> "raised ValueError"]
  ELSE LET k == oldest_key(timestamps, order)
       IN  evict_oldest(Without(cache, {k}), Without(timestamps, {k}), order)

\* _manage_memory_cache: the expired records, then the oldest ones.
_manage_memory_cache(s, t, order) ==
  LET expired_keys ==
        {k \in DOMAIN s.memory_cache_timestamps :
           s.now - s.memory_cache_timestamps[k] > memory_cache_ttl}
      r == evict_oldest(Without(s.memory_cache, expired_keys),
                        Without(s.memory_cache_timestamps, expired_keys),
                        order)
  IN  Finish([s EXCEPT !.memory_cache = r.cache,
                       !.memory_cache_timestamps = r.timestamps], t, r.ret)

call__manage_memory_cache(t, order) ==
  /\ task[t].pc = "idle"
  /\ Becomes(_manage_memory_cache(
       [St EXCEPT !.task[t].op = "_manage_memory_cache"], t, order))

(***************************************************************************)
(* DomainBlocker                                                           *)
(***************************************************************************)
\* The failures that a run records for one domain, at most.
MaxCount == 4

\* DomainBlocker.should_block: no record, a record older than
\* block_duration (deleted), or the count against the threshold.
should_block(s, t, domain) ==
  IF domain \notin DOMAIN s.blocked THEN Finish(s, t, "False")
  ELSE LET timestamp == s.blocked[domain][1]
           count == s.blocked[domain][2]
       IN  IF s.now - timestamp > block_duration
           THEN Finish([s EXCEPT !.blocked =
                          [d \in DOMAIN @ \ {domain} |-> @[d]]], t, "False")
           ELSE Finish(s, t, IF count >= threshold THEN "True" ELSE "False")

\* DomainBlocker.record_failure
record_failure(s, t, domain) ==
  Finish([s EXCEPT !.blocked =
            Put(@, domain, IF domain \in DOMAIN @
                           THEN <<s.now, @[domain][2] + 1>>
                           ELSE <<s.now, 1>>)], t, NoneVal)

call_should_block(t, domain) ==
  /\ task[t].pc = "idle"
  /\ Becomes(should_block([St EXCEPT !.task[t].op = "should_block",
                                     !.task[t].key = domain], t, domain))

call_record_failure(t, domain) ==
  /\ task[t].pc = "idle"
  /\ domain \in DOMAIN blocked => blocked[domain][2] < MaxCount
  /\ Becomes(record_failure([St EXCEPT !.task[t].op = "record_failure",
                                       !.task[t].key = domain], t, domain))

(***************************************************************************)
(* Time passes.                                                            *)
(***************************************************************************)
Tick(tp) ==
  /\ tp > now
  /\ now' = tp
  /\ UNCHANGED <<_initialized, _shutting_down, _session, _initialization_lock,
                 _cache_locks, lock_epoch, lock_owner, lock_waiters,
                 _memory_cache, _memory_cache_timestamps, blocked_domains,
                 files, task, inserted_at, written_at, blocked_at, failures,
                 job, _instances, constructed, init_runs, stats, shards,
                 blocked>>

(***************************************************************************)
(* The initial state: a service that get_instance has constructed and      *)
(* initialized, over a store that may hold files of an earlier run.        *)
(***************************************************************************)
EmptyStore == [f \in FileIds |-> Absent]

InitialStores ==
  { EmptyStore,
    [EmptyStore EXCEPT ![<<"search", "md5:q1">>] = "json:v2"],
    [EmptyStore EXCEPT ![<<"images", "md5:A2">>] = "json:data-A2"],
    [EmptyStore EXCEPT ![<<"images", "md5:A2">>] = Corrupt] }

Init ==
  /\ _initialized = TRUE
  /\ _shutting_down = FALSE
  /\ _session = "None"
  /\ _initialization_lock = NoTask
  /\ _cache_locks = [u \in {} |-> 0]
  /\ lock_epoch = 0
  /\ lock_owner = [l \in LockIds |-> NoTask]
  /\ lock_waiters = [l \in LockIds |-> <<>>]
  /\ _memory_cache = [d \in {} |-> NoneVal]
  /\ _memory_cache_timestamps = [d \in {} |-> 0]
  /\ blocked_domains = {}
  /\ files \in InitialStores
  /\ task = [t \in Tasks |-> IdleTask]
  /\ now = 0
  /\ inserted_at = [d \in {} |-> 0]
  /\ written_at = [f \in FileIds |-> 0]
  /\ blocked_at = [d \in {} |-> 0]
  /\ failures = [d \in Domains |-> NotRecorded]
  /\ job = IdleJob
  /\ _instances = [r \in Roots |-> 1]
  /\ constructed = 1
  /\ init_runs = 1
  /\ stats = "Counter"
  /\ shards = EmptyTree
  /\ blocked = NoRecords

(***************************************************************************)
(* Spec: every operation, called by the concurrent coroutines of Tasks     *)
(* for one key, one category and one URL.                                  *)
(***************************************************************************)
ConcurrentKeys == {"q1"}
ConcurrentCategories == {"search"}
ConcurrentUrls == {"http://A.com/2"}

Next ==
  \/ \E t \in Tasks, k \in ConcurrentKeys, c \in ConcurrentCategories :
        call_get(t, k, c)
  \/ \E t \in Tasks, e \in BOOLEAN : get_read(t, e)
  \/ \E t \in Tasks, k \in ConcurrentKeys, v \in Payloads,
        c \in ConcurrentCategories : call_set(t, k, v, c)
  \/ \E t \in Tasks, e \in BOOLEAN : set_open(t, e)
  \/ \E t \in Tasks, e \in BOOLEAN : set_write(t, e)
  \/ \E t \in Tasks, u \in ConcurrentUrls : call_cache_image_async(t, u)
  \/ \E t \in Tasks : img_locked(t)
  \/ \E t \in Tasks, e \in BOOLEAN : img_get_read(t, e)
  \/ \E t \in Tasks, r \in Responses : img_response(t, r)
  \/ \E t \in Tasks, b \in Bodies : img_body(t, b)
  \/ \E t \in Tasks, e \in BOOLEAN : img_set_open(t, e)
  \/ \E t \in Tasks, e \in BOOLEAN : img_set_write(t, e)
  \/ \E t \in Tasks, u \in ConcurrentUrls :
        call_get_image_with_placeholder(t, u)
  \/ \E t \in Tasks, e \in BOOLEAN : ph_get_read(t, e)
  \/ \E t \in Tasks, r \in Responses, i \in BOOLEAN : ph_response(t, r, i)
  \/ \E t \in Tasks, u \in ConcurrentUrls : call_fetch_image_with_retry(t, u)
  \/ \E t \in Tasks : retry_sleep(t)
  \/ \E t \in Tasks : call_cleanup(t)
  \/ \E t \in Tasks : cleanup_close(t)
  \/ \E t \in Tasks : call_shutdown(t)
  \/ \E t \in Tasks : shutdown_close(t)
  \/ \E u \in ConcurrentUrls, st \in {403, 404, 429, 500} :
        _handle_error_response(u, st)
  \/ \E t \in Tasks : Return(t)


Spec == Init /\ [][Next]_vars

(***************************************************************************)
(* SpecSeq: one caller at a time of get, set, cache_image_async and        *)
(* cleanup, for every key, category and URL, with the history of the       *)
(* fetches kept.                                                           *)
(***************************************************************************)
Caller == "t1"

InitSeq ==
  /\ _initialized = TRUE
  /\ _shutting_down = FALSE
  /\ _session = "None"
  /\ _initialization_lock = NoTask
  /\ _cache_locks = [u \in {} |-> 0]
  /\ lock_epoch = 0
  /\ lock_owner = [l \in LockIds |-> NoTask]
  /\ lock_waiters = [l \in LockIds |-> <<>>]
  /\ _memory_cache = [d \in {} |-> NoneVal]
  /\ _memory_cache_timestamps = [d \in {} |-> 0]
  /\ blocked_domains = {}
  /\ files \in InitialStores
  /\ task = [t \in Tasks |-> IdleTask]
  /\ now = 0
  /\ inserted_at = [d \in {} |-> 0]
  /\ written_at = [f \in FileIds |-> 0]
  /\ blocked_at = [d \in {} |-> 0]
  /\ failures = [d \in Domains |-> 0]
  /\ job = IdleJob
  /\ _instances = [r \in Roots |-> 1]
  /\ constructed = 1
  /\ init_runs = 1
  /\ stats = "Counter"
  /\ shards = EmptyTree
  /\ blocked = NoRecords

NextSeq ==
  \/ \E k \in Keys, c \in Categories : call_get(Caller, k, c)
  \/ \E e \in BOOLEAN : get_read(Caller, e)
  \/ \E k \in Keys, v \in Payloads, c \in Categories :
        call_set(Caller, k, v, c)
  \/ \E e \in BOOLEAN : set_open(Caller, e)
  \/ \E e \in BOOLEAN : set_write(Caller, e)
  \/ \E u \in Urls : call_cache_image_async(Caller, u)
  \/ \E e \in BOOLEAN : img_get_read(Caller, e)
  \/ \E r \in Responses : img_response(Caller, r)
  \/ \E b \in Bodies : img_body(Caller, b)
  \/ \E e \in BOOLEAN : img_set_open(Caller, e)
  \/ \E e \in BOOLEAN : img_set_write(Caller, e)
  \/ call_cleanup(Caller)
  \/ cleanup_close(Caller)
  \/ \E u \in Urls, st \in {403, 404, 429, 500} : _handle_error_response(u, st)
  \/ Return(Caller)

SpecSeq == InitSeq /\ [][NextSeq]_vars

(***************************************************************************)
(* SpecClock: one caller at a time, for one key, one category and one URL, *)
(* with the clock running.                                                 *)
(***************************************************************************)
NextClock ==
  \/ \E k \in ConcurrentKeys, c \in ConcurrentCategories :
        call_get(Caller, k, c)
  \/ \E e \in BOOLEAN : get_read(Caller, e)
  \/ \E k \in ConcurrentKeys, v \in Payloads, c \in ConcurrentCategories :
        call_set(Caller, k, v, c)
  \/ \E e \in BOOLEAN : set_open(Caller, e)
  \/ \E e \in BOOLEAN : set_write(Caller, e)
  \/ \E u \in ConcurrentUrls : call_cache_image_async(Caller, u)
  \/ \E e \in BOOLEAN : img_get_read(Caller, e)
  \/ \E r \in Responses : img_response(Caller, r)
  \/ \E b \in Bodies : img_body(Caller, b)
  \/ \E e \in BOOLEAN : img_set_open(Caller, e)
  \/ \E e \in BOOLEAN : img_set_write(Caller, e)
  \/ call_cleanup(Caller)
  \/ cleanup_close(Caller)
  \/ \E u \in ConcurrentUrls, st \in {403, 404, 429, 500} :
        _handle_error_response(u, st)
  \/ Return(Caller)
  \/ \E tp \in TimePoints : Tick(tp)

SpecClock == Init /\ [][NextClock]_vars

(***************************************************************************)
(* The claims.                                                             *)
(***************************************************************************)
\* What get(k, cache_type) returns from this state when nothing else runs
\* and the read does not fail.
GetValue(k, cache_type) ==
  IF md5(k) \in DOMAIN _memory_cache THEN _memory_cache[md5(k)]
  ELSE LET result == json_loads(files[cache_path(cache_type, md5(k))])
       IN  IF Truthy(result) THEN result ELSE NoneVal

\* C1: once set(k, v, c) has completed, get(k, c) returns v, also when k
\* was cached with another payload before: the new write supersedes the
\* old entry.  (SpecSeq; set returns at once when the key is in the memory
\* cache, so the old payload stays.)
C1_SetThenGet ==
  \A t \in Tasks :
    (task[t].pc = "done" /\ task[t].op = "set")
      => GetValue(task[t].key, task[t].cat) = task[t].val

\* The coroutines whose cache_image_async has a request for u in flight.
InFlight(u) ==
  {t \in Tasks : task[t].pc \in {"img_request", "img_body"} /\ task[t].key = u}

\* C2 as stated: every concurrent caller of cache_image_async for one URL
\* returns the populated entry and only one of them fetches, so a caller
\* that waited for the lock finds the entry in the cache.  (Spec; after a
\* failed fetch the waiter finds nothing and fetches again.)
C2_WaiterFindsEntry ==
  \A t \in Tasks :
    task[t].pc = "img_locked" => md5(task[t].key) \in DOMAIN _memory_cache

\* C2 amended: of the concurrent callers of cache_image_async for one URL
\* at most one has a request in flight at a time; once a fetch has
\* succeeded, the waiter that is handed the lock finds the fetched data URI
\* in the cache, and a caller that returns without a fetch returns the
\* cached entry.
C2_OnePopulate ==
  /\ \A u \in Urls : Cardinality(InFlight(u)) <= 1
  /\ \A t, h \in Tasks :
       (/\ task[t].pc = "img_locked"
        /\ task[h].pc = "done" /\ task[h].op = "cache_image_async"
        /\ task[h].key = task[t].key /\ task[h].resp = "ok")
         => /\ md5(task[t].key) \in DOMAIN _memory_cache
            /\ _memory_cache[md5(task[t].key)] = task[h].ret
  /\ \A t \in Tasks :
       (/\ task[t].pc = "done" /\ task[t].op = "cache_image_async"
        /\ task[t].resp = "-")
         => /\ md5(task[t].key) \in DOMAIN _memory_cache
            /\ task[t].ret = _memory_cache[md5(task[t].key)]

\* A caller has fetched and returned the data URI while another waited for
\* the lock of the same URL; the waiter now holds the lock.
C2_Witness ==
  \E t, h \in Tasks :
    /\ task[t].pc = "img_locked" /\ task[t].op = "cache_image_async"
    /\ task[h].pc = "done" /\ task[h].op = "cache_image_async"
    /\ task[h].key = task[t].key /\ task[h].resp = "ok"
    /\ task[h].ret = _memory_cache[md5(task[t].key)]

\* The coroutine t is inside "async with lock" of cache_image_async.
InCriticalSection(t) ==
  task[t].pc \in {"img_locked", "img_get_read", "img_request", "img_body",
                  "img_set_open", "img_set_write"}

\* C3: for one key at most one caller is inside the check-then-populate
\* critical section at any time, also while cleanup runs.  (Spec; cleanup
\* clears the registry while a lock is held, and the next caller gets a
\* new lock.)
C3_MutualExclusion ==
  \A t1, t2 \in Tasks :
    (t1 # t2 /\ InCriticalSection(t1) /\ InCriticalSection(t2))
      => task[t1].key # task[t2].key

\* C4: the memory cache never holds more records than its capacity.
\* (SpecSeq; nothing evicts: _manage_memory_cache is called nowhere.)
C4_Capacity == Cardinality(DOMAIN _memory_cache) <= memory_cache_size

\* The step completes a get of t that returns an entry older than its
\* lifetime: a memory record older than the memory TTL, or a file older than
\* max_age_hours.
ServesExpired(t) ==
  /\ task[t].pc # "done" /\ task'[t].pc = "done"
  /\ task'[t].op = "get" /\ Truthy(task'[t].ret)
  /\ \/ /\ task'[t].src = "memory"
        /\ now - inserted_at[md5(task'[t].key)] > memory_cache_ttl
     \/ /\ task'[t].src = "file"
        /\ now - written_at[cache_path(task'[t].cat, md5(task'[t].key))]
             > max_age_hours * 3600

\* C5: get never returns an expired entry: past its lifetime get returns a
\* miss.  (SpecClock; get compares no age.)
C5_NoExpiredEntry == [][\A t \in Tasks : ~ServesExpired(t)]_vars

\* The step sends a request of cache_image_async for t.
IssuesRequest(t) == task[t].pc # "img_request" /\ task'[t].pc = "img_request"

\* C6: after threshold consecutive failed fetches to one domain, the next
\* fetch to it makes no network attempt.  (SpecSeq; cache_image_async
\* records no failure.)
C6_BlockedAfterFailures ==
  [][\A t \in Tasks :
       IssuesRequest(t) => failures[_get_domain(task'[t].key)] < threshold]_vars

\* The step turns the call of t away at the breaker.
TurnedAway(t) == task[t].resp # "blocked" /\ task'[t].resp = "blocked"

\* C7: a blocked domain is unblocked once block_duration has elapsed since
\* it was blocked: no call is turned away then.  (SpecClock; the set of
\* blocked domains keeps no time.)
C7_BlockExpires ==
  [][\A t \in Tasks :
       TurnedAway(t)
         => now - blocked_at[_get_domain(task'[t].key)] < block_duration]_vars

\* The step sends a request for t: of cache_image_async or of
\* _generate_placeholder.
SendsRequest(t) ==
  /\ task'[t].pc \in {"img_request", "ph_request"}
  /\ task[t].pc # task'[t].pc

\* C8: no request is sent to a URL whose domain is blocked.  (Spec;
\* get_image_with_placeholder asks _generate_placeholder for the thumbnail
\* before cache_image_async consults the breaker.)
C8_NoRequestWhenBlocked ==
  [][\A t \in Tasks :
       SendsRequest(t) => ~_is_domain_blocked(St, task'[t].key)]_vars

\* The outcomes of a fetch of cache_image_async that did not succeed.
FailedFetch ==
  {"error", "status", "header too large", "body too large", "no session"}

C10_SizeLimit ==
  /\ \A d \in DOMAIN _memory_cache :
       PayloadBytes(_memory_cache[d]) <= max_image_size
  /\ \A f \in FileIds : PayloadBytes(json_loads(files[f])) <= max_image_size
  /\ \A t \in Tasks :
       task[t].pc = "img_body"
         => \/ task[t].content_length = NoHeader
            \/ task[t].content_length <= max_image_size
  /\ \A t \in Tasks :
       task[t].resp \in {"header too large", "body too large"}
         => task[t].pc = "done" /\ task[t].ret = task[t].key

\* A body over the limit, behind a header that was absent or declared a
\* size within the limit, has been dropped and the URL returned.
C10_Witness ==
  \E t \in Tasks :
    /\ task[t].pc = "done" /\ task[t].resp = "body too large"
    /\ task[t].content_length \in {NoHeader, max_image_size}
    /\ task[t].ret = task[t].key
    /\ md5(task[t].key) \notin DOMAIN _memory_cache

(***************************************************************************)
(* SpecRetry: one caller of get, set and fetch_image_with_retry; a sleep   *)
(* of the fetcher ends (asyncio.sleep returns).                            *)
(***************************************************************************)
NextRetry ==
  \/ \E k \in Keys, c \in Categories : call_get(Caller, k, c)
  \/ \E e \in BOOLEAN : get_read(Caller, e)
  \/ \E k \in Keys, v \in Payloads, c \in Categories :
        call_set(Caller, k, v, c)
  \/ \E e \in BOOLEAN : set_open(Caller, e)
  \/ \E e \in BOOLEAN : set_write(Caller, e)
  \/ \E u \in Urls : call_fetch_image_with_retry(Caller, u)
  \/ retry_sleep(Caller)
  \/ Return(Caller)

SpecRetry == Init /\ [][NextRetry]_vars /\ WF_vars(retry_sleep(Caller))

\* C11: fetch_image_with_retry retries at most max_retries times after its
\* first attempt, whatever fails, and then returns (None) to its caller:
\* every call ends.
C11_RetryTerminates ==
  /\ [](\A t \in Tasks :
          /\ task[t].retries <= max_retries
          /\ (task[t].pc = "done" /\ task[t].op = "fetch_image_with_retry")
               => (task[t].retries = max_retries /\ task[t].ret = NoneVal))
  /\ (task[Caller].op = "fetch_image_with_retry") ~> (task[Caller].pc = "done")

\* A call of fetch_image_with_retry has returned after its last retry.
C11_Witness ==
  /\ task[Caller].pc = "done" /\ task[Caller].op = "fetch_image_with_retry"
  /\ task[Caller].retries = max_retries /\ task[Caller].ret = NoneVal

(***************************************************************************)
(* SpecResponse: cache_response_async and the coroutines of its batches,   *)
(* with get called while no batch runs and domains blocked at any time.    *)
(***************************************************************************)
NextResponse ==
  \/ \E q \in Keys : call_cache_response_async(q)
  \/ \E e \in BOOLEAN : resp_set_open(e)
  \/ \E e \in BOOLEAN : resp_set_write(e)
  \/ \E t \in Tasks : child_start(t)
  \/ \E t \in Tasks, e \in BOOLEAN : img_get_read(t, e)
  \/ \E t \in Tasks, r \in Responses : img_response(t, r)
  \/ \E t \in Tasks, b \in Bodies : img_body(t, b)
  \/ \E t \in Tasks, e \in BOOLEAN : img_set_open(t, e)
  \/ \E t \in Tasks, e \in BOOLEAN : img_set_write(t, e)
  \/ batch_settled
  \/ job_return
  \/ \E u \in Urls, st \in {403, 404, 429, 500} : _handle_error_response(u, st)
  \/ \E k \in Keys : job.pc \in {"idle", "done"} /\ call_get(Caller, k, "search")
  \/ \E e \in BOOLEAN : get_read(Caller, e)
  \/ task[Caller].op = "get" /\ Return(Caller)

SpecResponse == Init /\ [][NextResponse]_vars

\* The coroutines of the current batch.
Children == {t \in Tasks : task[t].op = "cache_image_async"}

\* The step in which gather returns and the articles are rewritten.
RewritesBatch == job.pc = "gather" /\ job'.i > job.i

\* C12: cache_response_async rewrites an article's image to the data URI
\* that the fetch of its URL returned, and leaves it as it was when the
\* fetch returned the URL (a failure, or a blocked host); so every image is
\* the article's URL or the data URI the cache holds for that URL, and a
\* failed image leaves the others to be rewritten.
C12_ImagesRewritten ==
  [][/\ \A n \in DOMAIN job'.articles :
          \/ job'.articles[n] = Articles(job'.query)[n]
          \/ /\ IsDataUri(job'.articles[n])
             /\ md5(Articles(job'.query)[n]) \in DOMAIN _memory_cache'
             /\ job'.articles[n] = _memory_cache'[md5(Articles(job'.query)[n])]
     /\ RewritesBatch =>
          \A t \in Children : \A n \in DOMAIN job.articles :
            Articles(job.query)[n] = task[t].key
              => job'.articles[n] = IF IsDataUri(task[t].ret) THEN task[t].ret
                                    ELSE job.articles[n]]_vars

\* cache_response_async has returned a response with one image rewritten
\* and another left as its URL.
C12_Witness ==
  /\ job.pc = "done"
  /\ \E n, m \in DOMAIN job.articles :
       /\ IsDataUri(job.articles[n])
       /\ job.articles[m] = Articles(job.query)[m]

\* C13: after cache_response_async(query, response), get(query) returns the
\* response as rewritten, and the file of the query holds it too.
\* (SpecResponse; the entry is stored under md5(md5(query)), where
\* get(query) does not look, and the last set writes nothing.)
C13_RewrittenResponseCached ==
  job.pc = "done" =>
    /\ GetValue(job.query, "search")
         = ResponseValue(job.query, job.articles)
    /\ json_loads(files[cache_path("search", md5(job.query))])
         = ResponseValue(job.query, job.articles)

InitStore ==
  /\ _initialized = TRUE
  /\ _shutting_down = FALSE
  /\ _session = "None"
  /\ _initialization_lock = NoTask
  /\ _cache_locks = [u \in {} |-> 0]
  /\ lock_epoch = 0
  /\ lock_owner = [l \in LockIds |-> NoTask]
  /\ lock_waiters = [l \in LockIds |-> <<>>]
  /\ _memory_cache = [d \in {} |-> NoneVal]
  /\ _memory_cache_timestamps = [d \in {} |-> 0]
  /\ blocked_domains = {}
  /\ files \in InitialStores
               \cup {[EmptyStore EXCEPT ![<<"search", "md5:q1">>] = Corrupt]}
  /\ task = [t \in Tasks |-> IdleTask]
  /\ now = 0
  /\ inserted_at = [d \in {} |-> 0]
  /\ written_at = [f \in FileIds |-> 0]
  /\ blocked_at = [d \in {} |-> 0]
  /\ failures = [d \in Domains |-> NotRecorded]
  /\ job = IdleJob
  /\ _instances = [r \in Roots |-> 1]
  /\ constructed = 1
  /\ init_runs = 1
  /\ stats = "Counter"
  /\ shards = EmptyTree
  /\ blocked = NoRecords

NextStore ==
  \/ \E t \in Tasks, k \in Keys, c \in Categories : call_get(t, k, c)
  \/ \E t \in Tasks, e \in BOOLEAN : get_read(t, e)
  \/ \E t \in Tasks, k \in Keys, v \in Payloads, c \in Categories :
        call_set(t, k, v, c)
  \/ \E t \in Tasks, e \in BOOLEAN : set_open(t, e)
  \/ \E t \in Tasks, e \in BOOLEAN : set_write(t, e)
  \/ \E t \in Tasks : Return(t)

SpecStore == InitStore /\ [][NextStore]_vars

\* The file that the get or set of t reads or writes.
FileOf(t) == cache_path(task[t].cat, md5(task[t].key))

\* The step in which the get of t returns.
GetReturns(t) ==
  task'[t].op = "get" /\ task[t].pc # "done" /\ task'[t].pc = "done"

\* C15: get returns a value and raises nothing: the memory record, the
\* parsed file, or None; it is None when the file is missing or is not
\* JSON.
C15_GetNeverRaises ==
  [][\A t \in Tasks :
       GetReturns(t) =>
         IF task[t].pc = "idle"
         THEN \/ /\ md5(task'[t].key) \in DOMAIN _memory_cache
                 /\ task'[t].ret = _memory_cache[md5(task'[t].key)]
              \/ /\ md5(task'[t].key) \notin DOMAIN _memory_cache
                 /\ files[cache_path(task'[t].cat, md5(task'[t].key))] = Absent
                 /\ task'[t].ret = NoneVal
         ELSE \/ task'[t].ret = NoneVal
              \/ /\ files[FileOf(t)] \notin {Absent, Truncated, Corrupt}
                 /\ task'[t].ret = json_loads(files[FileOf(t)])]_vars

\* A get has read a file that is not JSON and returned None.
C15_Witness ==
  \E t \in Tasks :
    /\ task[t].pc = "done" /\ task[t].op = "get" /\ task[t].src = "miss"
    /\ files[FileOf(t)] = Corrupt
    /\ task[t].ret = NoneVal

\* The step in which the set of t returns after the write of its file
\* failed: at the open, or at the write.
WriteFails(t) ==
  /\ task[t].op = "set" /\ task[t].pc \in {"set_open", "set_write"}
  /\ task'[t].pc = "done"
  /\ files'[FileOf(t)] # json_dumps(task[t].val)

\* C16: when the write of the file fails, the write did not happen: the
\* memory cache does not hold the new value and the file is as it was
\* before the set.  (SpecStore; set writes the memory cache before the
\* file, catches the exception and returns None as after a success.)
C16_FailedSetLeavesNothing ==
  [][\A t \in Tasks :
       WriteFails(t) =>
         /\ \/ md5(task[t].key) \notin DOMAIN _memory_cache'
            \/ _memory_cache'[md5(task[t].key)] # task[t].val
         /\ files'[FileOf(t)] # Truncated]_vars

\* C17: a read never finds the file of an entry empty or half-written.
\* (SpecStore; the write opens the file with mode 'w', which empties it,
\* and writes the text in a later step.)
C17_NoTornRead ==
  [][\A t \in Tasks :
       (task[t].pc = "get_read" /\ task'[t].pc = "done")
         => files[FileOf(t)] # Truncated]_vars

(***************************************************************************)
(* SpecRegistry: get_instance, cleanup and shutdown called by the          *)
(* concurrent coroutines of Tasks, with get, set and cache_image_async on  *)
(* the instance.                                                           *)
(***************************************************************************)
NextRegistry ==
  \/ \E t \in Tasks, r \in Roots : call_get_instance(t, r)
  \/ \E t \in Tasks : call_cleanup(t)
  \/ \E t \in Tasks : cleanup_close(t)
  \/ \E t \in Tasks : call_shutdown(t)
  \/ \E t \in Tasks : shutdown_close(t)
  \/ \E k \in ConcurrentKeys, c \in ConcurrentCategories :
        call_get(Caller, k, c)
  \/ \E e \in BOOLEAN : get_read(Caller, e)
  \/ \E k \in ConcurrentKeys, v \in Payloads, c \in ConcurrentCategories :
        call_set(Caller, k, v, c)
  \/ \E e \in BOOLEAN : set_open(Caller, e)
  \/ \E e \in BOOLEAN : set_write(Caller, e)
  \/ \E u \in ConcurrentUrls : call_cache_image_async(Caller, u)
  \/ \E e \in BOOLEAN : img_get_read(Caller, e)
  \/ \E r \in Responses : img_response(Caller, r)
  \/ \E b \in Bodies : img_body(Caller, b)
  \/ \E e \in BOOLEAN : img_set_open(Caller, e)
  \/ \E e \in BOOLEAN : img_set_write(Caller, e)
  \/ \E t \in Tasks : Return(t)

SpecRegistry == Init /\ [][NextRegistry]_vars

\* The step in which get_instance, called by t, returns.
GetsInstance(t) ==
  task[t].pc = "idle" /\ task'[t].op = "get_instance" /\ task'[t].pc = "done"

\* C18: a get_instance call returns the instance that the registry holds
\* for the root; it constructs and initializes one, once, only when the
\* registry holds none for the root, so the callers between two cleanups
\* receive the same instance; the registry holds no instance but the one
\* constructed last.
C18_OneInstance ==
  /\ [](\A r \in DOMAIN _instances :
          _instances[r] = constructed /\ constructed <= MaxInstances)
  /\ [][\A t \in Tasks, r \in Roots :
          (GetsInstance(t) /\ task'[t].key = r) =>
            /\ r \in DOMAIN _instances'
            /\ task'[t].ret = InstanceName(_instances'[r])
            /\ IF r \in DOMAIN _instances
               THEN /\ _instances' = _instances
                    /\ constructed' = constructed
                    /\ init_runs' = init_runs
               ELSE /\ constructed' = constructed + 1
                    /\ _instances'[r] = constructed'
                    /\ init_runs' = 1
                    /\ _initialized']_vars

\* After a cleanup, both coroutines have called get_instance: one instance
\* was constructed and both hold it.
C18_Witness ==
  /\ constructed = 2
  /\ \A t \in Tasks :
       /\ task[t].pc = "done" /\ task[t].op = "get_instance"
       /\ task[t].ret = InstanceName(2)

\* The step in which a task's call of op returns.
Completes(t, op) ==
  task'[t].op = op /\ task[t].pc # "done" /\ task'[t].pc = "done"

\* The step in which the cleanup call that shuts the instance down returns.
CleanupCompletes(t) ==
  /\ Completes(t, "cleanup")
  /\ task[t].pc = "idle" => ~_shutting_down

Closes(t) ==
  task[t].pc = "idle" /\ task'[t].pc \in {"cleanup_close", "shutdown_close"}

\* The fields of the service and its store are as they were.
ServiceUnchanged ==
  UNCHANGED <<_initialized, _shutting_down, _session, _initialization_lock,
              _cache_locks, lock_epoch, lock_owner, lock_waiters,
              _memory_cache, _memory_cache_timestamps, blocked_domains,
              files, _instances>>

StartsFetch(t) ==
  /\ task[t].pc = "idle"
  /\ task'[t].op \in {"cache_image_async", "get_image_with_placeholder"}
  /\ task'[t].pc # "idle"

\* C21: a fetch that starts when _shutting_down is set sends no request and
\* opens no session.  (Spec; _generate_placeholder opens a session of its
\* own and never reads the flag.)
C21_NoFetchWhenShuttingDown ==
  [][\A t \in Tasks :
       (StartsFetch(t) /\ _shutting_down) =>
         /\ task'[t].pc \notin {"img_request", "ph_request"}
         /\ _session' = _session]_vars

\* The fetch of t has obtained the session and awaits the response or the
\* body.
UsesSession(t) == task[t].pc \in {"img_request", "img_body"}

\* C22: cleanup and shutdown close the session only when no fetch is using
\* it.  (Spec; cleanup holds only _initialization_lock, which a fetch
\* releases as soon as it has obtained the session, and shutdown holds no
\* lock.)
C22_CloseAfterLastFetch ==
  [][\A t \in Tasks :
       Closes(t) => \A u \in Tasks : ~UsesSession(u)]_vars

\* C30: the sleep before the retry that follows failed attempt number n
\* lasts base * 2^n, base being the first delay.  (SpecRetry; the code
\* sleeps 1 * (n + 1) seconds: 1, 2, 3.)
C30_DelaysDouble ==
  \A t \in Tasks :
    task[t].pc = "retry_sleep"
      => task[t].delay = retry_delay(0) * 2^(task[t].retries)

(***************************************************************************)
(* SpecMaintenance: one caller of CacheManager.cleanup, of                 *)
(* store_cache_entry, of get_stats, of set and of the cleanup of the       *)
(* service, over a store with day directories of an earlier run, and with  *)
(* the clock running past the retention.                                   *)
(***************************************************************************)
\* The instants (seconds) at which the clock is observed: after the
\* retention of cleanup_days has passed.
MaintenanceTimes == {cleanup_days * 86400 + 1}

InitMaintenance ==
  /\ _initialized = TRUE
  /\ _shutting_down = FALSE
  /\ _session = "None"
  /\ _initialization_lock = NoTask
  /\ _cache_locks = [u \in {} |-> 0]
  /\ lock_epoch = 0
  /\ lock_owner = [l \in LockIds |-> NoTask]
  /\ lock_waiters = [l \in LockIds |-> <<>>]
  /\ _memory_cache = [d \in {} |-> NoneVal]
  /\ _memory_cache_timestamps = [d \in {} |-> 0]
  /\ blocked_domains = {}
  /\ files = EmptyStore
  /\ task = [t \in Tasks |-> IdleTask]
  /\ now = 0
  /\ inserted_at = [d \in {} |-> 0]
  /\ written_at = [f \in FileIds |-> 0]
  /\ blocked_at = [d \in {} |-> 0]
  /\ failures = [d \in Domains |-> NotRecorded]
  /\ job = IdleJob
  /\ _instances = [r \in Roots |-> 1]
  /\ constructed = 1
  /\ init_runs = 1
  /\ stats = "Counter"
  /\ shards \in [DayDirs -> {Absent, "empty", "flat", "nested"}]
  /\ blocked = NoRecords

NextMaintenance ==
  \/ \E o \in Orders, h \in TimesOfDay : call_manager_cleanup(Caller, o, h)
  \/ \E k \in ConcurrentKeys, v \in Payloads :
        call_store_cache_entry(Caller, k, v)
  \/ call_get_stats(Caller)
  \/ \E k \in ConcurrentKeys, v \in Payloads, c \in ConcurrentCategories :
        call_set(Caller, k, v, c)
  \/ \E e \in BOOLEAN : set_open(Caller, e)
  \/ \E e \in BOOLEAN : set_write(Caller, e)
  \/ call_cleanup(Caller)
  \/ \E tp \in MaintenanceTimes : Tick(tp)
  \/ Return(Caller)

SpecMaintenance == InitMaintenance /\ [][NextMaintenance]_vars

\* The step in which CacheManager.cleanup, called by t, runs.
ManagerCleans(t) ==
  /\ task[t].pc = "idle"
  /\ task'[t].op = "manager.cleanup" /\ task'[t].pc = "done"

\* The day directory is older than now - max_age, whatever the hour.
Expired(d) ==
  IsDate(d) /\ \A h \in TimesOfDay : dir_date(d) < cutoff_date(h, cleanup_days)

\* After the step, every expired day directory is gone and every other
\* one with a date is as it was.
ShardsCleaned ==
  \A d \in DayDirs :
    IsDate(d) => IF Expired(d) THEN shards'[d] = Absent
                 ELSE shards'[d] = shards[d]

\* C23: over day directories that all have dates, cleanup(7 days) removes
\* the directories dated 8 and 30 days ago with their entry files and
\* leaves the one dated 1 day ago.  (SpecMaintenance; the entry files of
\* the documented layout are in category directories, which stay, so
\* rmdir fails, and the handler of the failure raises NameError.)
C23_RemovesOldShards ==
  [][\A t \in Tasks :
       (ManagerCleans(t) /\ shards["not a date"] = Absent)
         => ShardsCleaned]_vars

\* C24: when the cleanup of the service has returned, the store holds no
\* file that set wrote more than cleanup_days ago.  (SpecMaintenance; the
\* cleanup of the service is the async definition, which calls no
\* CacheManager.cleanup; and set writes <cache_type>/<hash>.json, where
\* CacheManager.cleanup finds no day directory.)
C24_CleanupRemovesOldEntries ==
  [][\A t \in Tasks :
       CleanupCompletes(t) =>
         \A f \in FileIds :
           files'[f] # Absent => now - written_at[f] <= cleanup_days * 86400]_vars

\* C25: cleanup skips a day directory whose name is no date: it returns
\* without raising and has cleaned the other directories.
\* (SpecMaintenance, over stores where no rmdir fails; the handler calls
\* logger.error and the module has no logger.)
C25_SkipsMalformedNames ==
  [][\A t \in Tasks :
       (ManagerCleans(t) /\ shards["not a date"] # Absent
          /\ \A d \in DayDirs : shards[d] # "nested")
         => /\ task'[t].ret = NoneVal
            /\ shards'["not a date"] = shards["not a date"]
            /\ ShardsCleaned]_vars

\* C26: get_stats on an initialized service returns the counters and
\* raises nothing.  (SpecMaintenance; _initialize replaces the CacheStats
\* of self.stats by a Counter, which has no get_stats.)
C26_StatsReturns ==
  \A t \in Tasks :
    (task[t].pc = "done" /\ task[t].op = "get_stats")
      => task[t].ret = "stats"

\* C27: every file that set has written is at
\* <year>/<month>/<day>/<category>/<digest of the key> and holds the
\* record {query, timestamp, response}.  (SpecMaintenance; set writes
\* json.dumps(data) to <category>/<digest>.json.)
C27_DatedLayout ==
  \A f \in FileIds :
    files[f] \notin {Absent, Truncated} =>
      \E k \in Keys, tp \in {0} \cup MaintenanceTimes, v \in Payloads :
        /\ \E day \in DayDirs \cup {"today"}, c \in Categories :
             f = store_cache_path(day, c, md5(k))
        /\ files[f] = cache_data(k, tp, v)

(***************************************************************************)
(* SpecBlocker: one caller of a DomainBlocker, with the clock running      *)
(* around block_duration.                                                  *)
(***************************************************************************)
BlockerTimes == {block_duration - 1, block_duration, block_duration + 1}

NextBlocker ==
  \/ \E d \in Domains : call_should_block(Caller, d)
  \/ \E d \in Domains : call_record_failure(Caller, d)
  \/ \E tp \in BlockerTimes : Tick(tp)
  \/ Return(Caller)

SpecBlocker == Init /\ [][NextBlocker]_vars

\* The step in which should_block, called by t, returns.
ShouldBlockReturns(t) ==
  /\ task[t].pc = "idle"
  /\ task'[t].op = "should_block" /\ task'[t].pc = "done"

\* C28: should_block(d) is true exactly when d has a record with at least
\* threshold failures and now - timestamp < block_duration.  (SpecBlocker;
\* the record expires when now - timestamp > block_duration, so at
\* now - timestamp = block_duration the domain is still blocked.)
C28_BlockedIff ==
  [][\A t \in Tasks :
       ShouldBlockReturns(t) =>
         LET d == task'[t].key
         IN  (task'[t].ret = "True")
               <=> /\ d \in DOMAIN blocked
                   /\ blocked[d][2] >= threshold
                   /\ now - blocked[d][1] < block_duration]_vars

(***************************************************************************)
(* SpecEvict: _manage_memory_cache applied to memory caches of up to       *)
(* Cardinality(Digests) records, whose timestamps are all recorded or,     *)
(* as set leaves them, not recorded at all.                                *)
(***************************************************************************)
\* The insertion times of the records: expired, at the TTL exactly, and
\* younger, at the time EvictNow.
EvictTimes == {0, 2, 3}
EvictNow == memory_cache_ttl + 2

InitEvict ==
  /\ _initialized = TRUE
  /\ _shutting_down = FALSE
  /\ _session = "None"
  /\ _initialization_lock = NoTask
  /\ _cache_locks = [u \in {} |-> 0]
  /\ lock_epoch = 0
  /\ lock_owner = [l \in LockIds |-> NoTask]
  /\ lock_waiters = [l \in LockIds |-> <<>>]
  /\ \E S \in SUBSET Digests :
       /\ _memory_cache = [d \in S |-> "v1"]
       /\ inserted_at \in [S -> EvictTimes]
  /\ _memory_cache_timestamps \in {inserted_at, [d \in {} |-> 0]}
  /\ blocked_domains = {}
  /\ files = EmptyStore
  /\ task = [t \in Tasks |-> IdleTask]
  /\ now = EvictNow
  /\ written_at = [f \in FileIds |-> 0]
  /\ blocked_at = [d \in {} |-> 0]
  /\ failures = [d \in Domains |-> NotRecorded]
  /\ job = IdleJob
  /\ _instances = [r \in Roots |-> 1]
  /\ constructed = 1
  /\ init_runs = 1
  /\ stats = "Counter"
  /\ shards = EmptyTree
  /\ blocked = NoRecords

NextEvict ==
  \/ \E o \in DictOrders : call__manage_memory_cache(Caller, o)
  \/ Return(Caller)

SpecEvict == InitEvict /\ [][NextEvict]_vars

\* The step in which _manage_memory_cache, called by t, runs.
Manages(t) ==
  /\ task[t].pc = "idle"
  /\ task'[t].op = "_manage_memory_cache" /\ task'[t].pc = "done"

\* The records of the memory cache that have not expired.
Unexpired ==
  {k \in DOMAIN _memory_cache_timestamps :
     now - _memory_cache_timestamps[k] <= memory_cache_ttl}

\* C29: when every record has a timestamp, _manage_memory_cache removes
\* every record older than the TTL; of the others it removes none while
\* they fit the capacity, else as many as exceed it and no more, and no
\* record that stays is older than one that goes; what stays is unchanged.
C29_TwoPhaseEviction ==
  [][\A t \in Tasks :
       (Manages(t) /\ DOMAIN _memory_cache_timestamps = DOMAIN _memory_cache)
         => /\ task'[t].ret = NoneVal
            /\ DOMAIN _memory_cache' \subseteq Unexpired
            /\ DOMAIN _memory_cache_timestamps' = DOMAIN _memory_cache'
            /\ Cardinality(DOMAIN _memory_cache') =
                 IF Cardinality(Unexpired) <= memory_cache_size
                 THEN Cardinality(Unexpired) ELSE memory_cache_size
            /\ \A k \in Unexpired \ DOMAIN _memory_cache',
                  j \in DOMAIN _memory_cache' :
                 _memory_cache_timestamps[k] <= _memory_cache_timestamps[j]
            /\ \A k \in DOMAIN _memory_cache' :
                 /\ _memory_cache'[k] = _memory_cache[k]
                 /\ _memory_cache_timestamps'[k] = _memory_cache_timestamps[k]]_vars

\* _manage_memory_cache has removed an expired record and, for the
\* capacity, an unexpired one, and the cache is full.
C29_Witness ==
  /\ task[Caller].pc = "done" /\ task[Caller].op = "_manage_memory_cache"
  /\ task[Caller].ret = NoneVal
  /\ DOMAIN _memory_cache_timestamps = DOMAIN _memory_cache
  /\ Cardinality(DOMAIN _memory_cache) = memory_cache_size
  /\ \E k \in DOMAIN inserted_at \ DOMAIN _memory_cache :
       now - inserted_at[k] <= memory_cache_ttl
  /\ \E k \in DOMAIN inserted_at \ DOMAIN _memory_cache :
       now - inserted_at[k] > memory_cache_ttl

(***************************************************************************)
(* SpecShards: one caller of CacheManager.get_cache_entry and of           *)
(* CacheManager.cleanup, over a store with the day directories of the      *)
(* last week and of the day before it, at midnight and at noon.            *)
(***************************************************************************)
ShardDirs == {"today", "6 days ago", "7 days ago", "8 days ago"}

\* The orders in which iterdir may list these directories.
ShardOrders ==
  {o \in [1..Cardinality(ShardDirs) -> ShardDirs] :
     \A i, j \in DOMAIN o : i # j => o[i] # o[j]}

\* Noon of today (seconds); the clock starts at today's midnight.
ShardTimes == {12 * 3600}

\* datetime.now(), as the hour of today.
HourOfDay(seconds) == (seconds \div 3600) % 24

InitShards ==
  /\ _initialized = TRUE
  /\ _shutting_down = FALSE
  /\ _session = "None"
  /\ _initialization_lock = NoTask
  /\ _cache_locks = [u \in {} |-> 0]
  /\ lock_epoch = 0
  /\ lock_owner = [l \in LockIds |-> NoTask]
  /\ lock_waiters = [l \in LockIds |-> <<>>]
  /\ _memory_cache = [d \in {} |-> NoneVal]
  /\ _memory_cache_timestamps = [d \in {} |-> 0]
  /\ blocked_domains = {}
  /\ files = EmptyStore
  /\ task = [t \in Tasks |-> IdleTask]
  /\ now = 0
  /\ inserted_at = [d \in {} |-> 0]
  /\ written_at = [f \in FileIds |-> 0]
  /\ blocked_at = [d \in {} |-> 0]
  /\ failures = [d \in Domains |-> NotRecorded]
  /\ job = IdleJob
  /\ _instances = [r \in Roots |-> 1]
  /\ constructed = 1
  /\ init_runs = 1
  /\ stats = "Counter"
  /\ shards \in [ShardDirs -> {Absent, "flat", "nested"}]
  /\ blocked = NoRecords

NextShards ==
  \/ \E k \in Keys, c \in Categories, st \in Storages :
        call_get_cache_entry(Caller, k, c, st)
  \/ \E o \in ShardOrders : call_manager_cleanup(Caller, o, HourOfDay(now))
  \/ \E tp \in ShardTimes : Tick(tp)
  \/ Return(Caller)

SpecShards == InitShards /\ [][NextShards]_vars

\* The day directories of today and of the seven days before it that hold
\* an entry <day>/<cache_type>/<hash>.json.
ShardsWithEntry ==
  {d \in DOMAIN shards : shards[d] = "nested" /\ DaysAgo(d) <= 7}

\* The response of the entry of the day directory d.
EntryOf(d) == "response of " \o d

\* C31: get_cache_entry returns the entry of the most recent of the day
\* directories from today back to 7 days ago that hold the key, and None
\* when none of them does.  (SpecShards; the first storage.read raises, or
\* returns a coroutine that is not awaited, and the except clause names
\* CacheError, which the module does not import.)
C31_MostRecentShardFirst ==
  \A t \in Tasks :
    (task[t].pc = "done" /\ task[t].op = "manager.get_cache_entry") =>
      IF ShardsWithEntry = {} THEN task[t].ret = NoneVal
      ELSE \E d \in ShardsWithEntry :
             /\ \A e \in ShardsWithEntry : DaysAgo(d) <= DaysAgo(e)
             /\ task[t].ret = EntryOf(d)

\* The hours of a day at which an entry may have been written.
WriteHours == {0, 23}

\* The age, in hours, of an entry written at the hour w of the day of d.
AgeHours(d, w) == DaysAgo(d) * 24 - w + HourOfDay(now)

\* C38: cleanup(cleanup_days) leaves the files of every day directory that
\* may hold an entry younger than cleanup_days.  (SpecShards; cleanup
\* compares the midnight at which the day of the directory starts with
\* now - max_age, so after midnight it deletes the directory dated
\* cleanup_days ago with the entries written later that day.)
C38_KeepsYoungEntries ==
  [][\A t \in Tasks :
       ManagerCleans(t) =>
         \A d \in DOMAIN shards, w \in WriteHours :
           (shards[d] \in {"flat", "nested"}
              /\ AgeHours(d, w) < cleanup_days * 24)
             => shards'[d] = shards[d]]_vars

(***************************************************************************)
(* SpecReader: SpecResponse with a second coroutine that calls get for the *)
(* key of the cached response at any time, also while a batch runs.        *)
(***************************************************************************)
Reader == "t2"

NextReader ==
  \/ NextResponse
  \/ \E q \in Keys : call_get(Reader, md5(q), "search")
  \/ \E e \in BOOLEAN : get_read(Reader, e)
  \/ task[Reader].op = "get" /\ Return(Reader)

SpecReader == Init /\ [][NextReader]_vars

\* A get of the response that the running cache_response_async has cached
\* returns to the reader while the batches are processed.
ReadsMidBatch ==
  /\ job.pc = "gather" /\ job.cached
  /\ task[Reader].pc = "idle"
  /\ task'[Reader].pc = "done" /\ task'[Reader].op = "get"
  /\ task'[Reader].key = md5(job.query)

\* C32: a get that runs while cache_response_async processes its batches
\* returns the response as it was passed in, with no image rewritten.
\* (SpecReader; the memory cache holds the very dict that the batches
\* rewrite in place, so a reader sees each batch's rewriting as soon as
\* gather returns, and the final set stores nothing.)
C32_ReaderSeesOriginal ==
  [][ReadsMidBatch =>
       task'[Reader].ret = ResponseValue(job.query, Articles(job.query))]_vars

(***************************************************************************)
(* SpecCategories: one caller at a time of get and set, for every key and  *)
(* category, over a store whose reads and writes all succeed.              *)
(***************************************************************************)
NextCategories ==
  \/ \E k \in Keys, c \in Categories : call_get(Caller, k, c)
  \/ get_read(Caller, FALSE)
  \/ \E k \in Keys, v \in Payloads, c \in Categories :
        call_set(Caller, k, v, c)
  \/ set_open(Caller, FALSE)
  \/ set_write(Caller, FALSE)
  \/ Return(Caller)

SpecCategories == InitSeq /\ [][NextCategories]_vars

\* The step in which set(k, v, c) is called.
SetCalled(t) == task[t].pc = "idle" /\ task'[t].op = "set"

\* C33: get(k, c) returns only what the store holds for k under c, and a
\* set(k, v, c) made when the store holds nothing for k under c goes on to
\* store it.  (SpecCategories, where every write succeeds, so what was set
\* under a category is what its file holds; the memory cache is keyed by
\* md5(k) alone, so it answers for every category once one has the key.)
C33_CategoriesIsolated ==
  [][\A t \in Tasks :
       /\ (GetReturns(t) /\ task'[t].ret # NoneVal) =>
            task'[t].ret
              = json_loads(files'[cache_path(task'[t].cat, md5(task'[t].key))])
       /\ (SetCalled(t)
             /\ files[cache_path(task'[t].cat, md5(task'[t].key))] = Absent)
            => task'[t].pc # "done"]_vars

(***************************************************************************)
(* SpecLayers: get and set called by the concurrent coroutines of Tasks    *)
(* for one key and one category, over a store whose writes all succeed.    *)
(***************************************************************************)
NextLayers ==
  \/ \E t \in Tasks, k \in ConcurrentKeys, c \in ConcurrentCategories :
        call_get(t, k, c)
  \/ \E t \in Tasks, e \in BOOLEAN : get_read(t, e)
  \/ \E t \in Tasks, k \in ConcurrentKeys, v \in Payloads,
        c \in ConcurrentCategories : call_set(t, k, v, c)
  \/ \E t \in Tasks : set_open(t, FALSE)
  \/ \E t \in Tasks : set_write(t, FALSE)
  \/ \E t \in Tasks : Return(t)

SpecLayers == InitStore /\ [][NextLayers]_vars

\* No get and no set is in progress.
AtRest == \A t \in Tasks : task[t].pc \in {"idle", "done"}

\* C34: at rest, a key that is in the memory cache and has a file has the
\* same payload in both.  (SpecLayers, where no write fails; a get that
\* missed the memory cache and is suspended in the read of the old file
\* overwrites, when it resumes, the record that a set has stored in the
\* memory cache meanwhile, and the set then writes its payload to the file.)
C34_LayersAgreeAtRest ==
  AtRest =>
    \A k \in ConcurrentKeys, c \in ConcurrentCategories :
      (md5(k) \in DOMAIN _memory_cache
         /\ files[cache_path(c, md5(k))] # Absent)
        => json_loads(files[cache_path(c, md5(k))]) = _memory_cache[md5(k)]

\* C35: every instance that the registry holds, and so every instance that
\* get_instance returns, has _shutting_down unset.  (SpecRegistry; cleanup
\* sets the flag first, is suspended in session.close(), and takes the
\* instance out of the registry only after it resumes.)
C35_RegisteredNotShuttingDown ==
  \A r \in DOMAIN _instances :
    _instances[r] = constructed => ~_shutting_down

(***************************************************************************)
(* SpecFair: cache_image_async for one URL, cleanup and get_instance       *)
(* called by the concurrent coroutines of Tasks.  The event loop runs      *)
(* every coroutine that is ready, and every request, read and write ends   *)
(* (with a result, an error or a timeout): a coroutine that can take its   *)
(* next step takes it.  Nothing obliges a caller to begin a call.          *)
(***************************************************************************)
Continue(t) ==
  \/ img_locked(t)
  \/ \E e \in BOOLEAN : img_get_read(t, e)
  \/ \E r \in Responses : img_response(t, r)
  \/ \E b \in Bodies : img_body(t, b)
  \/ \E e \in BOOLEAN : img_set_open(t, e)
  \/ \E e \in BOOLEAN : img_set_write(t, e)
  \/ cleanup_close(t)

NextFair ==
  \/ \E t \in Tasks, u \in ConcurrentUrls : call_cache_image_async(t, u)
  \/ \E t \in Tasks : call_cleanup(t)
  \/ \E t \in Tasks, r \in Roots : call_get_instance(t, r)
  \/ \E t \in Tasks : Continue(t)
  \/ \E t \in Tasks : Return(t)

SpecFair ==
  Init /\ [][NextFair]_vars /\ \A t \in Tasks : WF_vars(Continue(t))

\* The coroutine t waits for the lock of its key.
WaitsForLock(t) == task[t].pc = "img_wait"

\* The lock object that t waits for or holds.
LockOf(t) == <<task[t].key, task[t].lock>>

\* The coroutine t holds the lock it asked for.
HoldsLock(t) == LockOf(t) \in LockIds /\ lock_owner[LockOf(t)] = t

\* C36: no coroutine waits for a key lock for ever, and a wait ends only
\* with the lock handed to the waiter; a lock that has an owner is held by
\* a coroutine inside the critical section of that key, so every return of
\* cache_image_async has released it; waiters wait only for a lock that is
\* held; and a coroutine that waits holds neither a key lock nor the
\* initialization lock, so no wait is cyclic.
C36_NoLostLock ==
  /\ (\E t \in Tasks : WaitsForLock(t)) ~> (\A t \in Tasks : ~WaitsForLock(t))
  /\ [][\A t \in Tasks :
          (WaitsForLock(t) /\ ~WaitsForLock(t)') => HoldsLock(t)']_vars
  /\ [](\A l \in LockIds :
          /\ lock_owner[l] # NoTask =>
               /\ InCriticalSection(lock_owner[l])
               /\ LockOf(lock_owner[l]) = l
          /\ lock_waiters[l] # <<>> => lock_owner[l] # NoTask)
  /\ [](\A t \in Tasks :
          WaitsForLock(t) =>
            /\ \A l \in LockIds : lock_owner[l] # t
            /\ _initialization_lock # t)

\* A coroutine that waited for the lock has been handed it by the one that
\* has returned.
C36_Witness ==
  \E t, h \in Tasks :
    /\ task[t].pc = "img_locked" /\ HoldsLock(t)
    /\ task[h].pc = "done" /\ task[h].op = "cache_image_async"
    /\ task[h].key = task[t].key

\* The step in which record_failure, called by t, returns.
RecordsFailure(t) ==
  /\ task[t].pc = "idle"
  /\ task'[t].op = "record_failure" /\ task'[t].pc = "done"

\* What should_block(d) would answer in the state after the step.
BlockedAfter(d) ==
  /\ d \in DOMAIN blocked'
  /\ ~(now' - blocked'[d][1] > block_duration)
  /\ blocked'[d][2] >= threshold

\* C37: when every failure recorded for a domain is older than
\* block_duration, one new failure does not block the domain (threshold new
\* ones are needed).  (SpecBlocker; record_failure adds one to the count of
\* the record whatever its age, and only should_block deletes an old
\* record, so without a should_block in between the old failures count.)
C37_OldFailuresDoNotCount ==
  [][\A t \in Tasks :
       LET d == task'[t].key
       IN  (/\ RecordsFailure(t)
            /\ d \in DOMAIN blocked
            /\ now - blocked[d][1] > block_duration
            /\ threshold > 1)
             => ~BlockedAfter(d)]_vars

\* C39: the memory cache and the map of its insertion times have the same
\* keys, so _manage_memory_cache finds a timestamp for every record.
\* (SpecStore; get and set store records in _memory_cache and never write
\* _memory_cache_timestamps, which stays empty.)
C39_TimestampForEveryRecord ==
  DOMAIN _memory_cache_timestamps = DOMAIN _memory_cache
====
